---- MODULE Spec2Model ----
(***************************************************************************)
(* derive-error-chain: the #[derive(ErrorChain)] expansion (variant        *)
(* classification, format-string analysis) and the behaviour of the code   *)
(* it generates (description, Display, cause, conversions, chaining).      *)
(*                                                                         *)
(* Four specifications share the module:                                   *)
(*   LinkSpec  Link::from run on one variant after another, attribute by   *)
(*             attribute (lib.rs 994-1158);                                *)
(*   Spec      the code generated for a declared enum, executed: wrapper   *)
(*             errors are constructed and converted (lib.rs 713-888);      *)
(*   FmtSpec   one variant with a const(...) format-string override:       *)
(*             analysed by CustomFormatter::parse, then displayed          *)
(*             (lib.rs 1448-1558, 1232-1312);                              *)
(*   ExpandSpec derive_error_chain run on one enum: top-level properties,  *)
(*             the variants' Links, the generated items (lib.rs 607-976).  *)
(***************************************************************************)
EXTENDS Integers, Sequences, FiniteSets, TLC

\* Largest number of fields of a declared variant.
MaxFields == 2

(***************************************************************************)
(* Option and Result values.                                               *)
(***************************************************************************)
NoneV == [tag |-> "None"]
Some(x) == [tag |-> "Some", val |-> x]
Ok(x) == [tag |-> "Ok", val |-> x]
Panic(msg, member, got) == [tag |-> "Panic", msg |-> msg, member |-> member, got |-> got]

(***************************************************************************)
(* syn::Type, as far as the expansion inspects it: whether it is a path,   *)
(* the path's leading `::`, its segment identifiers and whether the last   *)
(* segment carries generic arguments.                                      *)
(***************************************************************************)
PathType(global, segs, args) ==
    [kind |-> "Path", global |-> global, segs |-> segs, args |-> args]
TString == PathType(FALSE, <<"String">>, FALSE)
TGlobalString == PathType(TRUE, <<"String">>, FALSE)
TStdString == PathType(FALSE, <<"std", "string", "String">>, FALSE)
TStringArgs == PathType(FALSE, <<"String">>, TRUE)
TU32 == PathType(FALSE, <<"u32">>, FALSE)
TRefStr == [kind |-> "Reference", global |-> FALSE, segs |-> <<"str">>, args |-> FALSE]
FieldTypes == {TString, TGlobalString, TStdString, TStringArgs, TU32, TRefStr}

(***************************************************************************)
(* syn::Fields.                                                            *)
(***************************************************************************)
Unit == [style |-> "Unit", tys |-> <<>>, names |-> <<>>]
Unnamed(tys) == [style |-> "Unnamed", tys |-> tys, names |-> <<>>]
Named(names, tys) == [style |-> "Named", tys |-> tys, names |-> names]
FieldNames == <<"a", "b", "c", "d">>
\* n field types: t first, u32 after it.
Pad(t, n) == [i \in 1..n |-> IF i = 1 THEN t ELSE TU32]
FieldShapes ==
    {Unit, Unnamed(<<>>)}
    \cup {Unnamed(<<t>>) : t \in FieldTypes}
    \cup {Unnamed(Pad(TString, n)) : n \in 2..MaxFields}
    \cup {Named(SubSeq(FieldNames, 1, n), Pad(TString, n)) : n \in 0..MaxFields}
NumFields(fields) == Len(fields.tys)

(***************************************************************************)
(* Format templates, as syntex_fmt_macros::Parser yields them: a sequence  *)
(* of pieces, each literal text or an argument with its position.          *)
(***************************************************************************)
PString(text) == [tag |-> "String", text |-> text, position |-> NoneV]
PNext == [tag |-> "NextArgument", text |-> "", position |-> [tag |-> "ArgumentNext"]]
PIs(i) == [tag |-> "NextArgument", text |-> "",
           position |-> [tag |-> "ArgumentIs", index |-> i]]
PNamed(n) == [tag |-> "NextArgument", text |-> "",
              position |-> [tag |-> "ArgumentNamed", name |-> n]]
TplPlain == <<PString("text")>>
TplNext == <<PString("text: "), PNext>>
TplPos0 == <<PString("text: "), PIs(0)>>
TplNameA == <<PString("text: "), PNamed("a")>>

(***************************************************************************)
(* The text of an attribute value (the content of a string literal, or the *)
(* tokens after `=`), by what the parsers make of it.                      *)
(*   closure  |x| ...            an expression, not a type                 *)
(*   path     a::B               an expression and a type                  *)
(*   const    const ...          neither; the constant-format shorthand    *)
(*   garbage                     neither                                   *)
(*   empty    no tokens at all                                             *)
(***************************************************************************)
Text(form, id) ==
    [form |-> form, id |-> id, group |-> "none", lit |-> "none",
     trailing |-> FALSE, template |-> <<>>]
TxtClosure == Text("closure", "closure1")
TxtPath == Text("path", "path1")
TxtGarbage == Text("garbage", "garbage")
TxtEmpty == Text("empty", "")
\* const("..."): the shorthand, well formed.
TxtConst(tpl) == [Text("const", "const") EXCEPT !.group = "paren", !.lit = "str",
                                               !.template = tpl]
\* const alone, const 5, const(5), const(+), const("...") x
TxtConstAlone == Text("const", "const")
TxtConstNoGroup == [Text("const", "const") EXCEPT !.group = "other"]
TxtConstNotStr == [Text("const", "const") EXCEPT !.group = "paren", !.lit = "other"]
TxtConstBadLit == [Text("const", "const") EXCEPT !.group = "paren", !.lit = "bad"]
TxtConstTrailing == [TxtConst(TplPlain) EXCEPT !.trailing = TRUE]

\* syn::parse_str::<syn::Type> / syn::parse2::<syn::Type>
parse_type(text) ==
    IF text.form = "path" THEN Ok([tag |-> "Type", id |-> text.id]) ELSE NoneV
\* syn::parse_str::<syn::Expr> / syn::parse2::<syn::Expr>
parse_expr(text) ==
    IF text.form \in {"closure", "path"}
    THEN Ok([tag |-> "Expr", closure |-> text.form = "closure", id |-> text.id])
    ELSE NoneV
\* syn::parse_str::<syn::Ident>: keywords are no identifiers.
Keywords == {"type", "self", "const"}
parse_ident(name) == IF name \in Keywords \/ name = "" THEN NoneV ELSE Ok(name)

is_closure(expr) == expr.closure

(***************************************************************************)
(* Format-string analysis (lib.rs 1630-1678).  Each function walks the     *)
(* pieces in order; collecting into a Result stops at the first error.     *)
(***************************************************************************)
Arguments(fmt) == SelectSeq(fmt, LAMBDA p : p.tag = "NextArgument")

\* First index of seq whose element satisfies Bad, or 0.
FirstIndex(seq, Bad(_)) ==
    IF \E i \in 1..Len(seq) : Bad(seq[i])
    THEN CHOOSE i \in 1..Len(seq) : Bad(seq[i]) /\ \A j \in 1..(i - 1) : ~Bad(seq[j])
    ELSE 0

NameIsError(p) ==
    \/ p.position.tag \in {"ArgumentNext", "ArgumentIs"}
    \/ p.position.tag = "ArgumentNamed" /\ parse_ident(p.position.name) = NoneV

get_parameter_names(format_string) ==
    LET as == Arguments(format_string)
        bad == FirstIndex(as, NameIsError)
    IN  IF bad # 0
        THEN [tag |-> "Err",
              err |-> IF as[bad].position.tag = "ArgumentNamed"
                      THEN "could not parse named parameter"
                      ELSE "expected named parameter",
              found |-> as[bad].position]
        ELSE Ok({as[i].position.name : i \in 1..Len(as)})

PositionIsError(p) == p.position.tag \in {"ArgumentNext", "ArgumentNamed"}

get_parameter_positions(format_string) ==
    LET as == Arguments(format_string)
        bad == FirstIndex(as, PositionIsError)
    IN  IF bad # 0
        THEN [tag |-> "Err", err |-> "expected positional parameter",
              found |-> as[bad].position]
        ELSE Ok({as[i].position.index : i \in 1..Len(as)})

\* Variation: the template of a unit variant is not examined.
ensure_no_parameters_unchecked(format_string) == Ok(<<>>)

ensure_no_parameters(format_string) ==
    LET as == Arguments(format_string)
    IN  IF as # <<>>
        THEN [tag |-> "Err", err |-> "expected no parameters", found |-> as[1].position]
        ELSE Ok(<<>>)

(***************************************************************************)
(* CustomFormatter (lib.rs 1443-1558).  A FormatString carries the         *)
(* template, a pattern with one entry per declared field (bound by         *)
(* reference, or ignored) and the arguments of the write! call.            *)
(***************************************************************************)
ExprFormatter(expr) ==
    [tag |-> "Expr", expr |-> expr, format_string |-> <<>>,
     pattern |-> <<>>, args |-> <<>>]
FormatString(format_string, pattern, fargs) ==
    [tag |-> "FormatString", expr |-> NoneV, format_string |-> format_string,
     pattern |-> pattern, args |-> fargs]

\* Named fields: `ref name` and the argument `name = name`, or `name: ref _name`.
NamedFormat(format_string, named, referenced_names) ==
    FormatString(format_string,
        [i \in 1..Len(named) |->
            IF named[i] \in referenced_names
            THEN [field |-> named[i], binding |-> "ref", ident |-> named[i]]
            ELSE [field |-> named[i], binding |-> "ref_ignored", ident |-> named[i]]],
        [i \in 1..Cardinality({j \in 1..Len(named) : named[j] \in referenced_names}) |->
            LET k == CHOOSE k \in 1..Len(named) :
                        /\ named[k] \in referenced_names
                        /\ Cardinality({j \in 1..k : named[j] \in referenced_names}) = i
            IN  [name |-> named[k], field |-> k - 1]])

\* Variation: every positional field is bound and passed on.
UnnamedFormat_all(format_string, n, referenced_positions) ==
    FormatString(format_string,
        [i \in 1..n |-> [field |-> i - 1, binding |-> "ref", ident |-> "value"]],
        [i \in 1..n |-> [name |-> "value", field |-> i - 1]])

\* Positional fields: `ref value<i>` and the argument `value<i>`, or `_`.
UnnamedFormat(format_string, n, referenced_positions) ==
    FormatString(format_string,
        [i \in 1..n |->
            IF (i - 1) \in referenced_positions
            THEN [field |-> i - 1, binding |-> "ref", ident |-> "value"]
            ELSE [field |-> i - 1, binding |-> "_", ident |-> "_"]],
        [i \in 1..Cardinality({j \in 0..(n - 1) : j \in referenced_positions}) |->
            LET k == CHOOSE k \in 0..(n - 1) :
                        /\ k \in referenced_positions
                        /\ Cardinality({j \in 0..k : j \in referenced_positions}) = i
            IN  [name |-> "value", field |-> k]])

AnalyseFormat(format_string, attr_name, variant_ident, variant_fields) ==
    CASE variant_fields.style = "Named" ->
            LET r == get_parameter_names(format_string)
            IN  IF r.tag = "Err"
                THEN Panic("FormatParameter", variant_ident, attr_name)
                ELSE Ok(NamedFormat(format_string, variant_fields.names, r.val))
      [] variant_fields.style = "Unnamed" ->
            LET r == get_parameter_positions(format_string)
            IN  IF r.tag = "Err"
                THEN Panic("FormatParameter", variant_ident, attr_name)
                ELSE Ok(UnnamedFormat(format_string, NumFields(variant_fields), r.val))
      [] OTHER ->
            LET r == ensure_no_parameters(format_string)
            IN  IF r.tag = "Err"
                THEN Panic("FormatParameter", variant_ident, attr_name)
                ELSE Ok(FormatString(format_string, <<>>, <<>>))

CustomFormatter_parse(tokens, attr_name, variant_ident, variant_fields) ==
    IF parse_expr(tokens) # NoneV
    THEN Ok(ExprFormatter(parse_expr(tokens).val))
    ELSE IF tokens.form # "const"
    THEN Panic("ExpectedConst", variant_ident, attr_name)
    ELSE IF tokens.group # "paren"
    THEN Panic("ExpectedStringLiteralGroup", variant_ident, attr_name)
    ELSE IF tokens.lit # "str"
    THEN Panic("ExpectedStringLiteral", variant_ident, attr_name)
    ELSE IF tokens.trailing
    THEN Panic("UnexpectedTokenAfterLiteral", variant_ident, attr_name)
    ELSE AnalyseFormat(tokens.template, attr_name, variant_ident, variant_fields)

(***************************************************************************)
(* Attributes.  An attribute has a path, what syn's interpret_meta()       *)
(* makes of it (a meta list with its nested items, another meta item, or   *)
(* nothing) and its raw tokens `tts`, which only the fallback reads.       *)
(***************************************************************************)
AttrPath(global, segs, arguments) ==
    [global |-> global, segs |-> segs, arguments |-> arguments]
PathErrorChain == AttrPath(FALSE, <<"error_chain">>, FALSE)
OtherPaths ==
    {AttrPath(FALSE, <<"doc">>, FALSE), AttrPath(FALSE, <<"cfg">>, FALSE),
     AttrPath(TRUE, <<"error_chain">>, FALSE),
     AttrPath(FALSE, <<"other", "error_chain">>, FALSE)}

\* Variation: the last segment of the path decides.
is_error_chain_attribute_last_segment(attr) ==
    attr.path.segs[Len(attr.path.segs)] = "error_chain" /\ ~attr.path.arguments

is_error_chain_attribute(attr) ==
    IF ~attr.path.global /\ Len(attr.path.segs) = 1
    THEN attr.path.segs[1] = "error_chain" /\ ~attr.path.arguments
    ELSE FALSE

\* Nested meta items of a meta list.
Word(ident) == [kind |-> "Word", ident |-> ident, lit |-> "none", value |-> TxtEmpty]
NameValue(ident, lit, value) ==
    [kind |-> "NameValue", ident |-> ident, lit |-> lit, value |-> value]
LiteralItem == [kind |-> "Literal", ident |-> "", lit |-> "Str", value |-> TxtEmpty]
NestedList == [kind |-> "List", ident |-> "nested", lit |-> "none", value |-> TxtEmpty]

\* Raw tokens after the attribute's path.
Tokens(outer, trailing, first, ident, second, value) ==
    [outer |-> outer, trailing |-> trailing, first |-> first, ident |-> ident,
     second |-> second, value |-> value]
NoTokens == Tokens("none", FALSE, "none", "", "none", TxtEmpty)
\* (ident = value)
Assign(ident, value) == Tokens("group", FALSE, "term", ident, "eq", value)

MetaList(nested) == Some([kind |-> "List", nested |-> nested])
MetaOther(kind) == Some([kind |-> kind, nested |-> <<>>])
ListAttr(nested) == [path |-> PathErrorChain, meta |-> MetaList(nested), tts |-> NoTokens]
TokensAttr(tts) == [path |-> PathErrorChain, meta |-> NoneV, tts |-> tts]
ForeignAttr(path) == [path |-> path, meta |-> MetaOther("NameValue"), tts |-> NoTokens]

(***************************************************************************)
(* LinkType and Link (lib.rs 978-992).                                     *)
(***************************************************************************)
LinkMsg == [tag |-> "Msg"]
Chainable(error_ty, error_kind_ty) ==
    [tag |-> "Chainable", error_ty |-> error_ty, error_kind_ty |-> error_kind_ty]
Foreign(ty) == [tag |-> "Foreign", ty |-> ty]
Custom == [tag |-> "Custom"]

Link(variant_ident, variant_fields, link_type, custom_description, custom_display, custom_cause) ==
    [variant_ident |-> variant_ident, variant_fields |-> variant_fields,
     link_type |-> link_type, custom_description |-> custom_description,
     custom_display |-> custom_display, custom_cause |-> custom_cause]

(***************************************************************************)
(* impl From<syn::Variant> for Link (lib.rs 994-1158), in its steps.       *)
(* The locals of the function are a Link whose link_type is an Option.     *)
(***************************************************************************)
\* Variation: any single field, named or positional.
IsSingleField(fields) == Len(fields.tys) = 1
IsTupleOfOne(fields) == fields.style = "Unnamed" /\ Len(fields.tys) = 1

\* Variation: the path's segments are not counted.
is_msg_last_segment(variant_ident, variant_fields) ==
    IF variant_ident # "Msg"
    THEN Ok(FALSE)
    ELSE IF /\ variant_fields.style = "Unnamed"
            /\ Len(variant_fields.tys) = 1
            /\ variant_fields.tys[1].kind = "Path"
            /\ variant_fields.tys[1].segs[Len(variant_fields.tys[1].segs)] = "String"
    THEN Ok(TRUE)
    ELSE Panic("ExpectedMsgTupleOfString", "Msg", "")

\* lib.rs 996-1012: Ok(TRUE), Ok(FALSE), or the panic.
is_msg(variant_ident, variant_fields) ==
    IF variant_ident # "Msg"
    THEN Ok(FALSE)
    ELSE IF /\ variant_fields.style = "Unnamed"
            /\ Len(variant_fields.tys) = 1
            /\ variant_fields.tys[1].kind = "Path"
            /\ ~variant_fields.tys[1].global
            /\ Len(variant_fields.tys[1].segs) = 1
            /\ variant_fields.tys[1].segs[1] = "String"
    THEN Ok(TRUE)
    ELSE Panic("ExpectedMsgTupleOfString", "Msg", "")

\* lib.rs 1025-1028
LinkLocals(variant_ident, variant_fields) ==
    Link(variant_ident, variant_fields, NoneV, NoneV, NoneV, NoneV)

\* Variation: a marker does not replace a link type already set.
nested_word_first_wins(l, ident) ==
    CASE ident = "foreign" ->
            IF IsTupleOfOne(l.variant_fields)
            THEN IF l.link_type = NoneV
                 THEN Ok([l EXCEPT !.link_type = Some(Foreign(l.variant_fields.tys[1]))])
                 ELSE Ok(l)
            ELSE Panic("ForeignMustBeTupleOfOne", l.variant_ident, "foreign")
      [] ident = "custom" ->
            IF l.link_type = NoneV THEN Ok([l EXCEPT !.link_type = Some(Custom)]) ELSE Ok(l)
      [] OTHER -> Panic("ExpectedForeignOrCustom", l.variant_ident, ident)

\* lib.rs 1038-1051: a bare word.
nested_word(l, ident) ==
    CASE ident = "foreign" ->
            IF IsTupleOfOne(l.variant_fields)
            THEN Ok([l EXCEPT !.link_type = Some(Foreign(l.variant_fields.tys[1]))])
            ELSE Panic("ForeignMustBeTupleOfOne", l.variant_ident, "foreign")
      [] ident = "custom" -> Ok([l EXCEPT !.link_type = Some(Custom)])
      [] OTHER -> Panic("ExpectedForeignOrCustom", l.variant_ident, ident)

\* Variation: a description or display string is parsed like the tokens are.
nested_name_value_shorthand(l, ident, value) ==
    CASE ident = "link" ->
            IF IsTupleOfOne(l.variant_fields)
            THEN IF parse_type(value) # NoneV
                 THEN Ok([l EXCEPT !.link_type =
                            Some(Chainable(parse_type(value).val, l.variant_fields.tys[1]))])
                 ELSE Panic("LinkNotAType", l.variant_ident, "link")
            ELSE Panic("ChainableMustBeTupleOfOne", l.variant_ident, "link")
      [] ident = "description" ->
            LET r == CustomFormatter_parse(value, "description", l.variant_ident,
                                           l.variant_fields)
            IN  IF r.tag = "Ok" THEN Ok([l EXCEPT !.custom_description = Some(r.val)]) ELSE r
      [] ident = "display" ->
            LET r == CustomFormatter_parse(value, "display", l.variant_ident,
                                           l.variant_fields)
            IN  IF r.tag = "Ok" THEN Ok([l EXCEPT !.custom_display = Some(r.val)]) ELSE r
      [] ident = "cause" ->
            IF parse_expr(value) # NoneV
            THEN Ok([l EXCEPT !.custom_cause = Some(parse_expr(value).val)])
            ELSE Panic("NotAnExpression", l.variant_ident, "cause")
      [] OTHER -> Panic("ExpectedLinkDescriptionDisplayCause", l.variant_ident, ident)

\* lib.rs 1053-1080: key = "string literal".
nested_name_value(l, ident, value) ==
    CASE ident = "link" ->
            IF IsTupleOfOne(l.variant_fields)
            THEN IF parse_type(value) # NoneV
                 THEN Ok([l EXCEPT !.link_type =
                            Some(Chainable(parse_type(value).val, l.variant_fields.tys[1]))])
                 ELSE Panic("LinkNotAType", l.variant_ident, "link")
            ELSE Panic("ChainableMustBeTupleOfOne", l.variant_ident, "link")
      [] ident = "description" ->
            IF parse_expr(value) # NoneV
            THEN Ok([l EXCEPT !.custom_description =
                        Some(ExprFormatter(parse_expr(value).val))])
            ELSE Panic("NotAnExpression", l.variant_ident, "description")
      [] ident = "display" ->
            IF parse_expr(value) # NoneV
            THEN Ok([l EXCEPT !.custom_display =
                        Some(ExprFormatter(parse_expr(value).val))])
            ELSE Panic("NotAnExpression", l.variant_ident, "display")
      [] ident = "cause" ->
            IF parse_expr(value) # NoneV
            THEN Ok([l EXCEPT !.custom_cause = Some(parse_expr(value).val)])
            ELSE Panic("NotAnExpression", l.variant_ident, "cause")
      [] OTHER -> Panic("ExpectedLinkDescriptionDisplayCause", l.variant_ident, ident)

\* lib.rs 1037-1083: one nested item of a meta list.
nested_meta(l, nm) ==
    IF nm.kind = "Word"
    THEN nested_word(l, nm.ident)
    ELSE IF nm.kind = "NameValue" /\ nm.lit = "Str"
    THEN nested_name_value(l, nm.ident, nm.value)
    ELSE Panic("ExpectedTermOrNameValue", l.variant_ident, "")

\* lib.rs 1121-1142: key = tokens.
tokens_name_value(l, ident, value) ==
    CASE ident = "link" ->
            IF IsTupleOfOne(l.variant_fields)
            THEN IF parse_type(value) # NoneV
                 THEN Ok([l EXCEPT !.link_type =
                            Some(Chainable(parse_type(value).val, l.variant_fields.tys[1]))])
                 ELSE Panic("LinkNotAType", l.variant_ident, "link")
            ELSE Panic("ChainableMustBeTupleOfOne", l.variant_ident, "link")
      [] ident = "description" ->
            LET r == CustomFormatter_parse(value, "description", l.variant_ident,
                                           l.variant_fields)
            IN  IF r.tag = "Ok" THEN Ok([l EXCEPT !.custom_description = Some(r.val)]) ELSE r
      [] ident = "display" ->
            LET r == CustomFormatter_parse(value, "display", l.variant_ident,
                                           l.variant_fields)
            IN  IF r.tag = "Ok" THEN Ok([l EXCEPT !.custom_display = Some(r.val)]) ELSE r
      [] ident = "cause" ->
            IF parse_expr(value) # NoneV
            THEN Ok([l EXCEPT !.custom_cause = Some(parse_expr(value).val)])
            ELSE Panic("NotAnExpression", l.variant_ident, "cause")
      [] OTHER -> Panic("ExpectedLinkDescriptionDisplayCause", l.variant_ident, ident)

\* lib.rs 1086-1143: the attribute is no meta list; its tokens are read.
tokens_attr(l, tts) ==
    IF tts.outer # "group"
    THEN Panic("ExpectedParenTokens", l.variant_ident, "")
    ELSE IF tts.trailing
    THEN Panic("UnexpectedTokenAfterParen", l.variant_ident, "")
    ELSE IF tts.first # "term"
    THEN Panic("ExpectedTerm", l.variant_ident, "")
    ELSE IF tts.second # "eq"
    THEN Panic("ExpectedEq", l.variant_ident, "")
    ELSE IF tts.value.form = "empty"
    THEN Panic("ExpectedTokensAfterEq", l.variant_ident, "")
    ELSE tokens_name_value(l, tts.ident, tts.value)

\* The nested items of one meta list, in order, up to the first panic.
RECURSIVE nested_loop(_, _, _)
nested_loop(l, nested, i) ==
    IF i > Len(nested)
    THEN Ok(l)
    ELSE LET r == nested_meta(l, nested[i])
         IN  IF r.tag = "Ok" THEN nested_loop(r.val, nested, i + 1) ELSE r

\* lib.rs 1030-1144: the body of `for attr in attrs`.
read_attr(l, attr) ==
    IF ~is_error_chain_attribute(attr)
    THEN Ok(l)
    ELSE IF attr.meta # NoneV /\ attr.meta.val.kind = "List"
    THEN nested_loop(l, attr.meta.val.nested, 1)
    ELSE tokens_attr(l, attr.tts)

RECURSIVE attrs_loop(_, _, _)
attrs_loop(l, attrs, i) ==
    IF i > Len(attrs)
    THEN Ok(l)
    ELSE LET r == read_attr(l, attrs[i])
         IN  IF r.tag = "Ok" THEN attrs_loop(r.val, attrs, i + 1) ELSE r

\* Variation: a variant without a marker defaults to a custom link.
link_finish_default(l) ==
    Ok([l EXCEPT !.link_type = IF l.link_type = NoneV THEN Custom ELSE l.link_type.val])

\* lib.rs 1146-1157
link_finish(l) ==
    IF l.link_type = NoneV
    THEN Panic("MemberHasNoLink", l.variant_ident, "")
    ELSE Ok([l EXCEPT !.link_type = l.link_type.val])

\* lib.rs 1014-1023
MsgLink(variant_ident, variant_fields) ==
    Link(variant_ident, variant_fields, LinkMsg, NoneV, NoneV, NoneV)

Variant(ident, fields, attrs) == [ident |-> ident, fields |-> fields, attrs |-> attrs]
\* Variation: the attributes of the Msg variant are read as well.
Link_from_reads_msg(variant) ==
    LET m == is_msg(variant.ident, variant.fields)
    IN  IF m.tag = "Panic"
        THEN m
        ELSE LET first == IF m.val
                          THEN Link(variant.ident, variant.fields, Some(LinkMsg),
                                    NoneV, NoneV, NoneV)
                          ELSE LinkLocals(variant.ident, variant.fields)
                 r == attrs_loop(first, variant.attrs, 1)
             IN  IF r.tag = "Ok" THEN link_finish(r.val) ELSE r

\* The whole conversion of one declared variant.
Link_from(variant) ==
    LET m == is_msg(variant.ident, variant.fields)
    IN  IF m.tag = "Panic"
        THEN m
        ELSE IF m.val
        THEN Ok(MsgLink(variant.ident, variant.fields))
        ELSE LET r == attrs_loop(LinkLocals(variant.ident, variant.fields), variant.attrs, 1)
             IN  IF r.tag = "Ok" THEN link_finish(r.val) ELSE r

(***************************************************************************)
(* State of the expansion of one variant.                                  *)
(*   pc       "idle" (no conversion running), "attrs" (inside the loop     *)
(*            over the variant's attributes), "panicked"                   *)
(*   variant  the identifier and fields of the variant being converted     *)
(*   l        the locals of Link::from while it runs                       *)
(*   ret      what the last Link::from returned: Ok(link) or the panic     *)
(*   markers  history: the last two classification markers (`foreign`,     *)
(*            `custom`, `link = ...`) among the items read for the         *)
(*            current variant                                              *)
(* State of a program that uses the generated code.                        *)
(*   links    the Links of the declared enum, in declaration order         *)
(*   err      the wrapper error last constructed, or NoneV                 *)
(*   op       history: the operation that constructed it and its inputs    *)
(* State of one variant's format-string override, analysed and then run.  *)
(*   decl     the declared variant: a custom link with one const(...)      *)
(*            override                                                     *)
(*   fret     what Link::from returned for it: Ok(link) or the panic       *)
(*   written  what the generated Display arm wrote for a value of it       *)
(* State of derive_error_chain, the expansion of one enum.                 *)
(*   ast        the derive input: attributes, generics, variants           *)
(*   xpc        "idle", "top" (before the top-level properties are read),  *)
(*              "variants" (converting the variants), "done", "panicked"   *)
(*   props      the TopLevelProperties, once read                          *)
(*   collected  the Links of the variants converted so far                 *)
(*   result     the token stream returned: the generated items; or the     *)
(*              panic that ended the expansion                             *)
(***************************************************************************)
VARIABLES pc, variant, l, ret, markers, links, err, op,
          decl, fret, written, ast, xpc, props, collected, result

linkVars == <<pc, variant, l, ret, markers>>
runVars == <<links, err, op>>
fmtVars == <<decl, fret, written>>
expVars == <<ast, xpc, props, collected, result>>
vars == <<pc, variant, l, ret, markers, links, err, op,
          decl, fret, written, ast, xpc, props, collected, result>>

VariantIdents == {"Msg", "HttpStatus"}
Words == {"foreign", "custom", "bogus"}
Keys == {"link", "description", "display", "cause", "bogus"}
StrValues == {TxtClosure, TxtPath, TxtGarbage, TxtConst(TplPlain)}
NestedItems ==
    {Word(w) : w \in Words}
    \cup {NameValue(k, "Str", v) : k \in Keys, v \in StrValues}
    \cup {NameValue("description", "Bool", TxtEmpty), LiteralItem, NestedList}
FormatterTexts ==
    {TxtClosure, TxtPath, TxtGarbage, TxtConst(TplPlain), TxtConst(TplPos0),
     TxtConst(TplNameA), TxtConst(TplNext), TxtConstAlone, TxtConstNoGroup,
     TxtConstNotStr, TxtConstBadLit, TxtConstTrailing}
TokenInputs ==
    {NoTokens,
     Tokens("other", FALSE, "none", "", "none", TxtEmpty),
     Tokens("group", TRUE, "term", "link", "eq", TxtPath),
     Tokens("group", FALSE, "none", "", "none", TxtEmpty),
     Tokens("group", FALSE, "other", "", "none", TxtEmpty),
     Tokens("group", FALSE, "term", "link", "none", TxtEmpty),
     Tokens("group", FALSE, "term", "custom", "other", TxtEmpty)}
    \cup {Assign(k, v) : k \in {"link", "cause", "bogus", "custom"},
                         v \in StrValues \cup {TxtEmpty}}
    \cup {Assign(k, v) : k \in {"description", "display"}, v \in FormatterTexts}
MarkerItems == {Word("foreign"), Word("custom"), NameValue("link", "Str", TxtPath)}
AttrInputs ==
    {ForeignAttr(path) : path \in OtherPaths}
    \cup {ListAttr(<<>>)}
    \cup {ListAttr(<<nm>>) : nm \in NestedItems}
    \cup {ListAttr(<<m1, m2>>) : m1 \in MarkerItems, m2 \in MarkerItems}
    \cup {TokensAttr(tts) : tts \in TokenInputs}

\* The classification marker an attribute's item carries, if any.
NestedMarker(nm) ==
    IF nm.kind = "Word" /\ nm.ident \in {"foreign", "custom"}
    THEN <<nm.ident>>
    ELSE IF nm.kind = "NameValue" /\ nm.lit = "Str" /\ nm.ident = "link"
    THEN <<"link">>
    ELSE <<>>
TokensMarker(tts) ==
    IF /\ tts.outer = "group" /\ ~tts.trailing /\ tts.first = "term" /\ tts.second = "eq"
       /\ tts.value.form # "empty" /\ tts.ident = "link"
    THEN <<"link">>
    ELSE <<>>
\* The markers of the nested items read, up to and including one that panics.
RECURSIVE NestedMarkers(_, _, _)
NestedMarkers(locals, nested, i) ==
    IF i > Len(nested)
    THEN <<>>
    ELSE LET r == nested_meta(locals, nested[i])
         IN  NestedMarker(nested[i])
             \o (IF r.tag = "Ok" THEN NestedMarkers(r.val, nested, i + 1) ELSE <<>>)
AttrMarkers(locals, attr) ==
    IF ~is_error_chain_attribute(attr)
    THEN <<>>
    ELSE IF attr.meta # NoneV /\ attr.meta.val.kind = "List"
    THEN NestedMarkers(locals, attr.meta.val.nested, 1)
    ELSE TokensMarker(attr.tts)
LastTwo(s) == IF Len(s) > 2 THEN SubSeq(s, Len(s) - 1, Len(s)) ELSE s

NoVariant == [ident |-> "", fields |-> Unit]
NoLocals == LinkLocals("", Unit)
NoOp == [name |-> "none", arg |-> NoneV, kind |-> NoneV, env |-> NoneV]

LinkIdle ==
    /\ pc = "idle"
    /\ variant = NoVariant
    /\ l = NoLocals
    /\ ret = NoneV
    /\ markers = <<>>

\* No format-string override is under analysis; no enum is being expanded.
FmtIdle == decl = NoneV /\ fret = NoneV /\ written = NoneV
ExpIdle ==
    /\ ast = NoneV
    /\ xpc = "idle"
    /\ props = NoneV
    /\ collected = <<>>
    /\ result = NoneV

LinkInit ==
    /\ LinkIdle
    /\ links = <<>>
    /\ err = NoneV
    /\ op = NoOp
    /\ FmtIdle
    /\ ExpIdle

\* Link::from is entered with the next variant (lib.rs 651, 995-1028).
LinkBegin(variant_ident, variant_fields) ==
    /\ pc = "idle"
    /\ variant' = [ident |-> variant_ident, fields |-> variant_fields]
    /\ markers' = <<>>
    /\ LET m == is_msg(variant_ident, variant_fields)
       IN  IF m.tag = "Panic"
           THEN pc' = "panicked" /\ ret' = m /\ l' = NoLocals
           ELSE IF m.val
           THEN /\ pc' = "idle"
                /\ ret' = Ok(MsgLink(variant_ident, variant_fields))
                /\ l' = NoLocals
           ELSE /\ pc' = "attrs"
                /\ ret' = NoneV
                /\ l' = LinkLocals(variant_ident, variant_fields)
    /\ UNCHANGED <<runVars, fmtVars, expVars>>

\* One turn of `for attr in attrs` (lib.rs 1030-1144): the attribute is skipped,
\* or its nested items or its tokens are read.
ReadAttr(attr) ==
    /\ pc = "attrs"
    /\ markers' = LastTwo(markers \o AttrMarkers(l, attr))
    /\ LET r == read_attr(l, attr)
       IN  IF r.tag = "Ok"
           THEN l' = r.val /\ ret' = ret /\ pc' = pc
           ELSE l' = NoLocals /\ ret' = r /\ pc' = "panicked"
    /\ UNCHANGED <<variant, links, err, op, fmtVars, expVars>>

\* The attributes are exhausted (lib.rs 1146-1157).
LinkEnd ==
    /\ pc = "attrs"
    /\ LET r == link_finish(l)
       IN  /\ ret' = r
           /\ pc' = IF r.tag = "Ok" THEN "idle" ELSE "panicked"
    /\ l' = NoLocals
    /\ UNCHANGED <<variant, markers, links, err, op, fmtVars, expVars>>

LinkNext ==
    \/ \E variant_ident \in VariantIdents, variant_fields \in FieldShapes :
          LinkBegin(variant_ident, variant_fields)
    \/ \E attr \in AttrInputs : ReadAttr(attr)
    \/ LinkEnd

LinkSpec == LinkInit /\ [][LinkNext]_vars

(***************************************************************************)
(* Properties of the variant classifier (LinkSpec).                        *)
(***************************************************************************)
\* Link::from has returned or panicked for `variant`.
Finished == pc # "attrs" /\ ret # NoneV
Classified == pc = "idle" /\ ret.tag = "Ok"
LastMarker == markers[Len(markers)]
MsgShape(fields) ==
    /\ fields.style = "Unnamed"
    /\ Len(fields.tys) = 1
    /\ fields.tys[1].kind = "Path"
    /\ ~fields.tys[1].global
    /\ fields.tys[1].segs = <<"String">>
TupleOfOneShape(fields) == fields.style = "Unnamed" /\ Len(fields.tys) = 1
ShapePanics == {"ForeignMustBeTupleOfOne", "ChainableMustBeTupleOfOne"}
MarkerOfLinkType(link_type) ==
    CASE link_type.tag = "Foreign" -> "foreign"
      [] link_type.tag = "Custom" -> "custom"
      [] link_type.tag = "Chainable" -> "link"
      [] OTHER -> "none"

\* C1: a variant that is not the Msg sentinel and carries none of the markers
\* `link`, `foreign`, `custom` is never turned into a Link: Link::from ends in a
\* panic that names the variant, and no link type is assumed for it.
C1_UnmarkedVariantIsFatal ==
    (Finished /\ markers = <<>> /\ ~(variant.ident = "Msg" /\ MsgShape(variant.fields)))
        => (pc = "panicked" /\ ret.tag = "Panic" /\ ret.member = variant.ident)

\* C1 witness: every attribute of a non-Msg variant was read without error,
\* none was a marker, and the conversion panicked naming the variant.
C1_Witness ==
    /\ pc = "panicked"
    /\ variant.ident = "HttpStatus"
    /\ variant.fields = Unnamed(<<TU32>>)
    /\ markers = <<>>
    /\ ret.msg = "MemberHasNoLink"
    /\ ret.member = "HttpStatus"

\* C2 (as stated): a variant whose attributes carry two or more markers fails
\* expansion instead of being classified.
C2_TwoMarkersFail ==
    (Finished /\ Len(markers) >= 2) => ret.tag = "Panic"

\* C2 (amended): a non-Msg variant is classified only when at least one marker
\* was read, and when several were read it is classified by the last of them.
C2_LastMarkerClassifies ==
    (Classified /\ ret.val.link_type # LinkMsg)
        => (markers # <<>> /\ LastMarker = MarkerOfLinkType(ret.val.link_type))

\* C2 witness: `custom` then `foreign` were read on a tuple of one field and the
\* variant was classified as a foreign link.
C2_Witness ==
    /\ Classified
    /\ markers = <<"custom", "foreign">>
    /\ ret.val.link_type = Foreign(TU32)

\* C3: a variant is classified as Message exactly when its identifier is `Msg`
\* and its fields are one positional field whose type is the non-global,
\* one-segment path `String`; `Msg` with any other shape panics; a variant with
\* another name is never classified as Message.
C3_MsgRecognition ==
    variant # NoVariant =>
        /\ (Classified /\ ret.val.link_type = LinkMsg)
               <=> (variant.ident = "Msg" /\ MsgShape(variant.fields))
        /\ (variant.ident = "Msg" /\ ~MsgShape(variant.fields))
               => (pc = "panicked" /\ ret.msg = "ExpectedMsgTupleOfString")
        /\ (variant.ident # "Msg" /\ Finished /\ ret.tag = "Panic")
               => ret.msg # "ExpectedMsgTupleOfString"

\* C3 witness: Msg(String) was classified as the Message link.
C3_Witness ==
    /\ Classified
    /\ variant = [ident |-> "Msg", fields |-> Unnamed(<<TString>>)]
    /\ ret.val = Link("Msg", Unnamed(<<TString>>), LinkMsg, NoneV, NoneV, NoneV)

\* C4 (as stated): a variant marked `foreign` or `link` that has exactly one
\* field is accepted: it does not fail the field-shape validation.
C4_OneFieldAccepted ==
    (pc = "panicked" /\ ret.msg \in ShapePanics) => NumFields(variant.fields) # 1

\* C4 (amended): `foreign` and `link` are accepted exactly when the fields are a
\* tuple of one positional field, and otherwise panic naming the variant;
\* `custom` is accepted with every field shape.
C4_TupleOfOneValidation ==
    /\ (Classified /\ ret.val.link_type.tag \in {"Foreign", "Chainable"})
           => TupleOfOneShape(variant.fields)
    /\ (pc = "panicked" /\ ret.msg \in ShapePanics)
           => (~TupleOfOneShape(variant.fields) /\ ret.member = variant.ident)
    /\ (markers # <<>> /\ LastMarker = "foreign" /\ ~TupleOfOneShape(variant.fields))
           => (pc = "panicked" /\ ret.msg = "ForeignMustBeTupleOfOne")
    /\ (markers # <<>> /\ LastMarker = "link" /\ ~TupleOfOneShape(variant.fields))
           => (pc = "panicked" /\ ret.msg = "ChainableMustBeTupleOfOne")
    /\ (markers # <<>> /\ LastMarker = "custom")
           => /\ pc = "attrs" => l.link_type = Some(Custom)
              /\ pc = "panicked" => ret.msg \notin ShapePanics
              /\ Classified => ret.val.link_type = Custom

\* C4 witness: `foreign` was read on a variant with one named field and the
\* conversion panicked.
C4_Witness ==
    /\ pc = "panicked"
    /\ variant.fields = Named(<<"a">>, <<TString>>)
    /\ markers = <<"foreign">>
    /\ ret = Panic("ForeignMustBeTupleOfOne", variant.ident, "foreign")

(***************************************************************************)
(* The generated code, executed.  Run-time values:                         *)
(*   strings       owned (String) or borrowed (&str), with their text      *)
(*   sibling kinds and sibling wrapper errors of a linked error chain      *)
(*   foreign errors, with their own description, Display and cause         *)
(*   plain field values of custom variants                                 *)
(*   kinds         a variant identifier and its field values               *)
(*   wrapper errors (kind, state), state = (next_error, backtrace)         *)
(***************************************************************************)
\* Most wrapper errors boxed, one inside the other, below the outermost one.
MaxChain == 1

MkString(chars) == [sort |-> "String", chars |-> chars, template |-> <<>>]
MkStr(chars) == [sort |-> "str", chars |-> chars, template |-> <<>>]
\* A string literal holding a format template, unformatted.
StaticStr(format_string) ==
    [sort |-> "str", chars |-> "format_string", template |-> format_string]
to_string(s) == [s EXCEPT !.sort = "String"]
as_str(s) == [s EXCEPT !.sort = "str"]
Strings == {MkString("boom")}
Strs == {MkStr("borrowed")}

SiblingKind(n) ==
    [sort |-> "SiblingKind", description |-> MkStr("sibling description"),
     display |-> MkStr("sibling display"), n |-> n]
SiblingKinds == {SiblingKind(1), SiblingKind(2)}

ForeignError(description, display, cause) ==
    [sort |-> "ForeignError", description |-> MkStr(description),
     display |-> MkStr(display), cause |-> cause]
ForeignErrorCause ==
    ForeignError("Foreign error cause description", "Foreign error cause display", NoneV)
ForeignErrors ==
    {ForeignErrorCause,
     ForeignError("Foreign error description", "Foreign error display",
                  Some(ForeignErrorCause))}

\* A field's Display output tells the fields apart.
FieldTexts == <<"first", "second", "third", "fourth">>
FieldValue(i) == [sort |-> "Field", display |-> MkStr(FieldTexts[i]), n |-> i]

State(next_error, backtrace) == [next_error |-> next_error, backtrace |-> backtrace]
Backtrace(id) == [sort |-> "Backtrace", id |-> id]
ErrorKind(variant_ident, values) ==
    [sort |-> "ErrorKind", variant |-> variant_ident, fields |-> values]
Error(kind, state) == [sort |-> "Error", kind |-> kind, state |-> state]
SiblingError(kind, state) == [sort |-> "SiblingError", kind |-> kind, state |-> state]

\* The result of calling a user-supplied function expression.
Call(expr, form, arguments) ==
    [sort |-> "Call", expr |-> expr.id, form |-> form, args |-> arguments]
\* (closure)(args) and path(args)
CallExpr(expr, arguments) ==
    IF is_closure(expr)
    THEN Call(expr, "closure", arguments)
    ELSE Call(expr, "path", arguments)

\* Variation: the first field alone is passed.
args_first(variant_fields, values) ==
    [i \in 1..(IF NumFields(variant_fields) = 0 THEN 0 ELSE 1) |-> values[i]]

\* lib.rs 1608-1628: every field is passed, in order.
args(variant_fields, values) == [i \in 1..NumFields(variant_fields) |-> values[i]]

LinkOf(ls, variant_ident) ==
    ls[CHOOSE i \in 1..Len(ls) : ls[i].variant_ident = variant_ident]

(***************************************************************************)
(* ErrorKind::description (lib.rs 716-724), with the arm that              *)
(* Link::error_kind_description generates for the kind's variant           *)
(* (lib.rs 1161-1230).                                                     *)
(***************************************************************************)
\* Variation: a custom link ignores its description override.
error_kind_description_no_override(link, kind) ==
    IF link.link_type.tag = "Msg"
    THEN as_str(kind.fields[1])
    ELSE IF link.link_type.tag = "Custom"
    THEN MkStr(link.variant_ident)
    ELSE IF link.custom_description = NoneV
    THEN kind.fields[1].description
    ELSE IF link.custom_description.val.tag = "FormatString"
    THEN StaticStr(link.custom_description.val.format_string)
    ELSE CallExpr(link.custom_description.val.expr, <<kind.fields[1]>>)

error_kind_description(link, kind) ==
    LET d == link.custom_description
        t == link.link_type.tag
    IN  IF t = "Msg"
        THEN as_str(kind.fields[1])
        ELSE IF d # NoneV /\ d.val.tag = "FormatString" /\ t \in {"Chainable", "Foreign"}
        THEN StaticStr(d.val.format_string)
        ELSE IF d # NoneV /\ t \in {"Chainable", "Foreign"} /\ is_closure(d.val.expr)
        THEN Call(d.val.expr, "closure", <<kind.fields[1]>>)
        ELSE IF d # NoneV /\ t \in {"Chainable", "Foreign"}
        THEN Call(d.val.expr, "path", <<kind.fields[1]>>)
        ELSE IF d # NoneV /\ d.val.tag = "FormatString"
        THEN StaticStr(d.val.format_string)
        ELSE IF d # NoneV
        THEN CallExpr(d.val.expr, args(link.variant_fields, kind.fields))
        ELSE IF t = "Chainable"
        THEN kind.fields[1].description
        ELSE IF t = "Foreign"
        THEN kind.fields[1].description
        ELSE MkStr(link.variant_ident)

ErrorKind_description(ls, kind) == error_kind_description(LinkOf(ls, kind.variant), kind)

(***************************************************************************)
(* Display for ErrorKind (lib.rs 726-733), with the arm that               *)
(* Link::error_kind_display_case generates (lib.rs 1232-1312).  What is    *)
(* written to the formatter is a sequence of strings and call results.     *)
(***************************************************************************)
Formatter == [sort |-> "Formatter"]
CompileError == [sort |-> "CompileError"]
DisplayOf(v) == IF v.sort \in {"String", "str"} THEN as_str(v) ELSE v.display

\* write!(f, format_string, args): a positional placeholder {n} names the n-th
\* argument passed, a named one the argument of that name.
WritePiece(piece, fargs, values) ==
    IF piece.tag = "String"
    THEN MkStr(piece.text)
    ELSE IF piece.position.tag = "ArgumentIs" /\ piece.position.index < Len(fargs)
    THEN DisplayOf(values[fargs[piece.position.index + 1].field + 1])
    ELSE IF /\ piece.position.tag = "ArgumentNamed"
            /\ \E j \in 1..Len(fargs) : fargs[j].name = piece.position.name
    THEN DisplayOf(values[fargs[CHOOSE j \in 1..Len(fargs) :
                                    fargs[j].name = piece.position.name].field + 1])
    ELSE CompileError
write(format_string, fargs, values) ==
    [i \in 1..Len(format_string) |-> WritePiece(format_string[i], fargs, values)]

\* Variation: a custom link without a display override writes its identifier.
error_kind_display_case_stringify(link, kind, description) ==
    LET d == link.custom_display
        t == link.link_type.tag
    IN  IF t = "Msg"
        THEN <<as_str(kind.fields[1])>>
        ELSE IF d # NoneV /\ d.val.tag = "FormatString"
        THEN write(d.val.format_string, d.val.args, kind.fields)
        ELSE IF d # NoneV /\ t \in {"Chainable", "Foreign"} /\ is_closure(d.val.expr)
        THEN <<Call(d.val.expr, "closure", <<kind.fields[1]>>)>>
        ELSE IF d # NoneV /\ t \in {"Chainable", "Foreign"}
        THEN <<Call(d.val.expr, "path", <<Formatter, kind.fields[1]>>)>>
        ELSE IF d # NoneV /\ is_closure(d.val.expr)
        THEN <<Call(d.val.expr, "closure", args(link.variant_fields, kind.fields))>>
        ELSE IF d # NoneV
        THEN <<Call(d.val.expr, "path",
                    <<Formatter>> \o args(link.variant_fields, kind.fields))>>
        ELSE IF t \in {"Chainable", "Foreign"}
        THEN <<kind.fields[1].display>>
        ELSE <<MkStr(link.variant_ident)>>

\* `description` is what self.description() returns for this kind.
error_kind_display_case(link, kind, description) ==
    LET d == link.custom_display
        t == link.link_type.tag
    IN  IF t = "Msg"
        THEN <<DisplayOf(kind.fields[1])>>
        ELSE IF d # NoneV /\ d.val.tag = "FormatString"
        THEN write(d.val.format_string, d.val.args, kind.fields)
        ELSE IF d # NoneV /\ t \in {"Chainable", "Foreign"} /\ is_closure(d.val.expr)
        THEN <<Call(d.val.expr, "closure", <<kind.fields[1]>>)>>
        ELSE IF d # NoneV /\ t \in {"Chainable", "Foreign"}
        THEN <<Call(d.val.expr, "path", <<Formatter, kind.fields[1]>>)>>
        ELSE IF d # NoneV /\ is_closure(d.val.expr)
        THEN <<Call(d.val.expr, "closure", args(link.variant_fields, kind.fields))>>
        ELSE IF d # NoneV
        THEN <<Call(d.val.expr, "path",
                    <<Formatter>> \o args(link.variant_fields, kind.fields))>>
        ELSE IF t = "Chainable"
        THEN <<DisplayOf(kind.fields[1])>>
        ELSE IF t = "Foreign"
        THEN <<DisplayOf(kind.fields[1])>>
        ELSE <<description>>

ErrorKind_fmt(ls, kind) ==
    error_kind_display_case(LinkOf(ls, kind.variant), kind, ErrorKind_description(ls, kind))

\* impl Error for the wrapper: description (lib.rs 792), Display (lib.rs 807-811).
Error_description(ls, e) == ErrorKind_description(ls, e.kind)
Error_fmt(ls, e) == ErrorKind_fmt(ls, e.kind)

(***************************************************************************)
(* cause() of the wrapper (lib.rs 794-804), with the arm that              *)
(* Link::error_cause_case generates (lib.rs 1345-1382).                    *)
(***************************************************************************)
\* Variation: a foreign link without a cause override has no cause arm.
error_cause_case_no_foreign(link, kind) ==
    IF link.link_type.tag = "Msg"
    THEN NoneV
    ELSE IF link.custom_cause # NoneV
    THEN Some(CallExpr(link.custom_cause.val, args(link.variant_fields, kind.fields)))
    ELSE NoneV

\* The arm's value; NoneV also where no arm is generated (`_ => None`).
error_cause_case(link, kind) ==
    IF link.link_type.tag = "Msg"
    THEN NoneV
    ELSE IF link.custom_cause # NoneV
    THEN Some(CallExpr(link.custom_cause.val, args(link.variant_fields, kind.fields)))
    ELSE IF link.link_type.tag = "Foreign"
    THEN kind.fields[1].cause
    ELSE NoneV

\* Variation: the per-variant arm is consulted before the chained cause.
Error_cause_arm_first(ls, e) ==
    IF error_cause_case(LinkOf(ls, e.kind.variant), e.kind) # NoneV
    THEN error_cause_case(LinkOf(ls, e.kind.variant), e.kind)
    ELSE IF e.state.next_error # NoneV
    THEN Some(e.state.next_error.val)
    ELSE NoneV

Error_cause(ls, e) ==
    IF e.state.next_error # NoneV
    THEN Some(e.state.next_error.val)
    ELSE error_cause_case(LinkOf(ls, e.kind.variant), e.kind)

(***************************************************************************)
(* The chain state of the companion crate error_chain: State::default()    *)
(* and State::new::<Self>(error), and the backtrace capture they gate on   *)
(* RUST_BACKTRACE.  A captured backtrace is a handle with an identity.     *)
(***************************************************************************)
EnvSettings == {NoneV, Some("0"), Some("1"), Some("")}

RECURSIVE BacktraceIds(_)
BacktraceIds(e) ==
    IF e.sort \in {"Error", "SiblingError"}
    THEN (IF e.state.backtrace = NoneV THEN {} ELSE {e.state.backtrace.val.id})
         \cup (IF e.state.next_error = NoneV THEN {}
               ELSE BacktraceIds(e.state.next_error.val))
    ELSE {}
\* The identity of a backtrace captured now: none of those in use.
FreshId(used) ==
    CHOOSE n \in 0..Cardinality(used) : n \notin used /\ \A m \in 0..(n - 1) : m \in used

\* Variation: an empty setting counts as unset.
make_backtrace_unless_empty(env, id) ==
    IF env # NoneV /\ env.val \notin {"0", ""} THEN Some(Backtrace(id)) ELSE NoneV

make_backtrace(env, id) ==
    IF env # NoneV /\ env.val # "0" THEN Some(Backtrace(id)) ELSE NoneV

State_default(env, id) == State(NoneV, make_backtrace(env, id))

\* fn extract_backtrace (lib.rs 682-699): the error is this wrapper type, or
\* the error type of a chainable link.
extract_backtrace(ls, error) ==
    IF error.sort = "Error"
    THEN error.state.backtrace
    ELSE IF /\ error.sort = "SiblingError"
            /\ \E i \in 1..Len(ls) : ls[i].link_type.tag = "Chainable"
    THEN error.state.backtrace
    ELSE NoneV

State_new(ls, error, env, id) ==
    State(Some(error),
          IF extract_backtrace(ls, error) # NoneV
          THEN extract_backtrace(ls, error)
          ELSE make_backtrace(env, id))

(***************************************************************************)
(* Constructors and conversions of the generated types.                    *)
(***************************************************************************)
\* lib.rs 754-756
from_kind(kind, env, id) == Error(kind, State_default(env, id))
\* lib.rs 766-770
with_boxed_chain(ls, error, kind, env, id) == Error(kind, State_new(ls, error, env, id))
\* lib.rs 759-763
with_chain(ls, error, kind, env, id) == with_boxed_chain(ls, error, kind, env, id)
\* lib.rs 736-738: From<Error> for ErrorKind
ErrorKind_from_Error(e) == e.kind
\* Variation: the error being extended is dropped.
chain_err_from_kind(ls, self, kind, env, id) == from_kind(kind, env, id)
\* lib.rs 786-788: the new kind arrives as a wrapper and is taken out of it.
chain_err(ls, self, kind, env, id) ==
    with_chain(ls, self, ErrorKind_from_Error(from_kind(kind, env, id)), env, id)

HasMsg(ls) == \E i \in 1..Len(ls) : ls[i].link_type = LinkMsg
MsgOf(ls) == ls[CHOOSE i \in 1..Len(ls) : ls[i].link_type = LinkMsg]

\* Variation: the string is replaced by the variant's name.
ErrorKind_from_str_named(link, s) == ErrorKind(link.variant_ident, <<MkString(link.variant_ident)>>)
\* lib.rs 1321-1324: From<&str> for ErrorKind
ErrorKind_from_str(link, s) == ErrorKind(link.variant_ident, <<to_string(s)>>)
\* lib.rs 1326-1328: From<String> for ErrorKind
ErrorKind_from_String(link, s) == ErrorKind(link.variant_ident, <<s>>)

\* lib.rs 1393-1395, 1397-1399: From<&str> and From<String> for Error
Error_from_str(link, s, env, id) == from_kind(ErrorKind_from_str(link, s), env, id)
Error_from_String(link, s, env, id) == from_kind(ErrorKind_from_String(link, s), env, id)

\* Variation: the conversion builds a new default state.
Error_from_error_new_state(link, error, env, id) ==
    Error(ErrorKind(link.variant_ident, <<error.kind>>), State_default(env, id))
\* lib.rs 1403-1409: From<sibling error> for Error; env and id are not read.
Error_from_error(link, error, env, id) ==
    Error(ErrorKind(link.variant_ident, <<error.kind>>), error.state)

\* lib.rs 1417-1423: From<foreign error> for Error
Error_from_foreign(link, error, env, id) ==
    from_kind(ErrorKind(link.variant_ident, <<error>>), env, id)
\* lib.rs 815-817: From<ErrorKind> for Error
Error_from_kind(kind, env, id) == from_kind(kind, env, id)
\* lib.rs 828-830: ChainedError::new
ChainedError_new(kind, state) == Error(kind, state)

\* A Result's Err(x).
Err(x) == [tag |-> "Err", val |-> x]
\* Variation: the error that failed is not kept as the cause.
Result_chain_err_from_kind(ls, self, kind, env, id) ==
    IF self.tag = "Ok"
    THEN [ret |-> Ok(self.val), called |-> FALSE]
    ELSE [ret |-> Err(from_kind(kind, env, id)), called |-> TRUE]
\* lib.rs 869-877: ResultExt::chain_err for Result<T, E>.  map_err runs its
\* closure, and with it the callback, only for Err; what is returned, and
\* whether the callback was called.
Result_chain_err(ls, self, kind, env, id) ==
    IF self.tag = "Ok"
    THEN [ret |-> Ok(self.val), called |-> FALSE]
    ELSE [ret |-> Err(ChainedError_new(kind, State_new(ls, self.val, env, id))),
          called |-> TRUE]
\* lib.rs 879-885: ResultExt::chain_err for Option<T>.  ok_or_else runs its
\* closure only for None.
Option_chain_err(ls, self, kind, env, id) ==
    IF self.tag = "Some"
    THEN [ret |-> Ok(self.val), called |-> FALSE]
    ELSE [ret |-> Err(from_kind(kind, env, id)), called |-> TRUE]

(***************************************************************************)
(* Declared enums: an optional Msg(String) variant and one more variant,   *)
(* chainable, foreign or custom, with or without overrides.                *)
(***************************************************************************)
TSiblingKind == PathType(FALSE, <<"other", "ErrorKind">>, FALSE)
TForeign == PathType(FALSE, <<"io", "Error">>, FALSE)
TxtSiblingError == Text("path", "other::Error")

OverrideForms == {"none", "closure", "path", "const"}
\* A template the variant's field shape accepts.
TemplateFor(fields) ==
    IF NumFields(fields) = 0 THEN TplPlain
    ELSE IF fields.style = "Named" THEN TplNameA
    ELSE TplPos0
OverrideText(key, form, fields) ==
    IF form = "const" THEN TxtConst(TemplateFor(fields)) ELSE Text(form, key)
OverrideAttr(key, form, fields) ==
    IF form = "none" THEN <<>> ELSE <<TokensAttr(Assign(key, OverrideText(key, form, fields)))>>
Profiles ==
    {p \in OverrideForms \X OverrideForms \X (OverrideForms \ {"const"}) :
        \/ Cardinality({i \in 1..3 : p[i] # "none"}) <= 1
        \/ p \in {<<"closure", "closure", "closure">>, <<"path", "path", "path">>,
                  <<"const", "const", "path">>}}
OverrideAttrs(p, fields) ==
    OverrideAttr("description", p[1], fields)
    \o OverrideAttr("display", p[2], fields)
    \o OverrideAttr("cause", p[3], fields)

MsgVariant == Variant("Msg", Unnamed(<<TString>>), <<>>)
ChainableVariant(p) ==
    Variant("Other", Unnamed(<<TSiblingKind>>),
            <<ListAttr(<<NameValue("link", "Str", TxtSiblingError)>>)>>
            \o OverrideAttrs(p, Unnamed(<<TSiblingKind>>)))
ForeignVariant(p) ==
    Variant("Io", Unnamed(<<TForeign>>),
            <<ListAttr(<<Word("foreign")>>)>> \o OverrideAttrs(p, Unnamed(<<TForeign>>)))
CustomVariant(fields, p) ==
    Variant("HttpStatus", fields, <<ListAttr(<<Word("custom")>>)>> \o OverrideAttrs(p, fields))
CustomShapes ==
    {Unit, Unnamed(Pad(TU32, MaxFields)), Named(SubSeq(FieldNames, 1, 1), <<TU32>>)}
OtherVariants ==
    {ChainableVariant(p) : p \in Profiles}
    \cup {ForeignVariant(p) : p \in Profiles}
    \cup {CustomVariant(fields, p) : fields \in CustomShapes, p \in Profiles}
Declarations == {<<v>> : v \in OtherVariants} \cup {<<MsgVariant, v>> : v \in OtherVariants}

\* lib.rs 651: every variant is converted, in order.
Expands(variants) == \A i \in 1..Len(variants) : Link_from(variants[i]).tag = "Ok"
LinksOf(variants) == [i \in 1..Len(variants) |-> Link_from(variants[i]).val]

(***************************************************************************)
(* Inputs of the running program.                                          *)
(***************************************************************************)
FieldValues(n) == [i \in 1..n |-> FieldValue(i)]
KindsOfLink(link) ==
    CASE link.link_type.tag = "Msg" -> {ErrorKind(link.variant_ident, <<s>>) : s \in Strings}
      [] link.link_type.tag = "Chainable" ->
            {ErrorKind(link.variant_ident, <<k>>) : k \in SiblingKinds}
      [] link.link_type.tag = "Foreign" ->
            {ErrorKind(link.variant_ident, <<f>>) : f \in ForeignErrors}
      [] link.link_type.tag = "Custom" ->
            {ErrorKind(link.variant_ident, FieldValues(NumFields(link.variant_fields)))}
Kinds(ls) == UNION {KindsOfLink(ls[i]) : i \in 1..Len(ls)}
States ==
    {State(n, b) : n \in {NoneV, Some(ForeignErrorCause)}, b \in {NoneV, Some(Backtrace(0))}}
SiblingErrors == {SiblingError(k, st) : k \in SiblingKinds, st \in States}

RECURSIVE ChainLen(_)
ChainLen(e) ==
    IF e.sort = "Error"
    THEN 1 + (IF e.state.next_error = NoneV THEN 0 ELSE ChainLen(e.state.next_error.val))
    ELSE 0

Op(name, arg, kind, env) == [name |-> name, arg |-> arg, kind |-> kind, env |-> env]

Init ==
    /\ LinkIdle
    /\ links \in {LinksOf(d) : d \in {v \in Declarations : Expands(v)}}
    /\ err = NoneV
    /\ op = NoOp
    /\ FmtIdle
    /\ ExpIdle

(***************************************************************************)
(* The operations of the running program.  It holds at most one wrapper    *)
(* error at a time: a constructor or conversion runs when it holds none,   *)
(* chain_err consumes the one it holds, Drop drops it.  RUST_BACKTRACE is  *)
(* read from the environment when a state is built and may hold any        *)
(* setting then.                                                           *)
(***************************************************************************)
Frame == UNCHANGED <<linkVars, links, fmtVars, expVars>>
HasLink(tag) == \E i \in 1..Len(links) : links[i].link_type.tag = tag
TheLink(tag) == links[CHOOSE i \in 1..Len(links) : links[i].link_type.tag = tag]

\* Error::from_kind(kind)
FromKind(kind, env) ==
    /\ err = NoneV
    /\ err' = from_kind(kind, env, FreshId({}))
    /\ op' = Op("from_kind", kind, kind, env)
    /\ Frame

\* let e: Error = kind.into();
ErrorFromKind(kind, env) ==
    /\ err = NoneV
    /\ err' = Error_from_kind(kind, env, FreshId({}))
    /\ op' = Op("From<ErrorKind>", kind, kind, env)
    /\ Frame

\* let e: Error = s.into();  for a String or a &str
ErrorFromString(s, env) ==
    /\ err = NoneV
    /\ HasMsg(links)
    /\ err' = IF s.sort = "str"
              THEN Error_from_str(MsgOf(links), s, env, FreshId({}))
              ELSE Error_from_String(MsgOf(links), s, env, FreshId({}))
    /\ op' = Op("From<String>", s, NoneV, env)
    /\ Frame

\* let k: ErrorKind = s.into(); let e: Error = k.into();
ErrorFromKindOfString(s, env) ==
    /\ err = NoneV
    /\ HasMsg(links)
    /\ LET k == IF s.sort = "str"
                THEN ErrorKind_from_str(MsgOf(links), s)
                ELSE ErrorKind_from_String(MsgOf(links), s)
       IN  err' = Error_from_kind(k, env, FreshId({}))
    /\ op' = Op("From<String> for ErrorKind", s, NoneV, env)
    /\ Frame

\* let e: Error = sibling_error.into();
ErrorFromSibling(error, env) ==
    /\ err = NoneV
    /\ HasLink("Chainable")
    /\ err' = Error_from_error(TheLink("Chainable"), error, env, FreshId(BacktraceIds(error)))
    /\ op' = Op("From<sibling error>", error, NoneV, env)
    /\ Frame

\* let e: Error = foreign_error.into();
ErrorFromForeign(error, env) ==
    /\ err = NoneV
    /\ HasLink("Foreign")
    /\ err' = Error_from_foreign(TheLink("Foreign"), error, env, FreshId({}))
    /\ op' = Op("From<foreign error>", error, NoneV, env)
    /\ Frame

\* ChainedError::new(kind, state)
New(kind, state) ==
    /\ err = NoneV
    /\ err' = ChainedError_new(kind, state)
    /\ op' = Op("new", state, kind, NoneV)
    /\ Frame

\* Error::with_chain(foreign_error, kind)
WithChain(error, kind, env) ==
    /\ err = NoneV
    /\ err' = with_chain(links, error, kind, env, FreshId(BacktraceIds(error)))
    /\ op' = Op("with_chain", error, kind, env)
    /\ Frame

\* err.chain_err(|| kind)
ChainErr(kind, env) ==
    /\ err # NoneV
    /\ ChainLen(err) <= MaxChain
    /\ err' = chain_err(links, err, kind, env, FreshId(BacktraceIds(err)))
    /\ op' = Op("chain_err", err, kind, env)
    /\ Frame

\* The values a Result or an Option holds when chain_err is called on it.
OkValues == {MkString("value")}
FailedErrors(ls) ==
    ForeignErrors \cup SiblingErrors
    \cup {from_kind(kind, env, 0) : kind \in Kinds(ls), env \in {NoneV, Some("1")}}
Results(ls) == {Ok(v) : v \in OkValues} \cup {Err(e) : e \in FailedErrors(ls)}
Options == {NoneV} \cup {Some(v) : v \in OkValues}
\* An operation of the chaining trait, with what it returned and whether it
\* called the callback.
ExtOp(name, arg, kind, env, r) ==
    [name |-> name, arg |-> arg, kind |-> kind, env |-> env, ret |-> r.ret,
     called |-> r.called]

\* result.chain_err(|| kind); the wrapper of an Err is held afterwards.
ResultChainErr(self, kind, env) ==
    /\ err = NoneV
    /\ LET r == Result_chain_err(links, self, kind, env,
                                 FreshId(IF self.tag = "Err" THEN BacktraceIds(self.val) ELSE {}))
       IN  /\ err' = IF r.ret.tag = "Err" THEN r.ret.val ELSE NoneV
           /\ op' = ExtOp("Result::chain_err", self, kind, env, r)
    /\ Frame

\* option.chain_err(|| kind)
OptionChainErr(self, kind, env) ==
    /\ err = NoneV
    /\ LET r == Option_chain_err(links, self, kind, env, FreshId({}))
       IN  /\ err' = IF r.ret.tag = "Err" THEN r.ret.val ELSE NoneV
           /\ op' = ExtOp("Option::chain_err", self, kind, env, r)
    /\ Frame

\* The wrapper goes out of scope.
Drop ==
    /\ err # NoneV
    /\ err' = NoneV
    /\ op' = NoOp
    /\ Frame

Next ==
    \/ \E kind \in Kinds(links), env \in EnvSettings : FromKind(kind, env)
    \/ \E kind \in Kinds(links), env \in EnvSettings : ErrorFromKind(kind, env)
    \/ \E s \in Strings \cup Strs, env \in EnvSettings : ErrorFromString(s, env)
    \/ \E s \in Strings \cup Strs, env \in EnvSettings : ErrorFromKindOfString(s, env)
    \/ \E error \in SiblingErrors, env \in EnvSettings : ErrorFromSibling(error, env)
    \/ \E error \in ForeignErrors, env \in EnvSettings : ErrorFromForeign(error, env)
    \/ \E kind \in Kinds(links), state \in States : New(kind, state)
    \/ \E error \in ForeignErrors, kind \in Kinds(links), env \in EnvSettings :
          WithChain(error, kind, env)
    \/ \E kind \in Kinds(links), env \in EnvSettings : ChainErr(kind, env)
    \/ \E self \in Results(links), kind \in Kinds(links), env \in EnvSettings :
          ResultChainErr(self, kind, env)
    \/ \E self \in Options, kind \in Kinds(links), env \in EnvSettings :
          OptionChainErr(self, kind, env)
    \/ Drop

Spec == Init /\ [][Next]_vars

(***************************************************************************)
(* Properties of the generated code (Spec).                                *)
(***************************************************************************)
ErrLink == LinkOf(links, err.kind.variant)
ErrTag == ErrLink.link_type.tag
\* The override was given as a function expression named `key`, and is called
\* with every field of the variant, in order.
IsCallOf(r, key, values) == r.sort = "Call" /\ r.expr = key /\ r.args = values

\* C5: description() of the kind returns the held string for Msg; with no
\* description override the sibling kind's description() for a chainable link,
\* the foreign error's description() for a foreign link and the variant's
\* identifier for a custom link; with a description override on a chainable,
\* foreign or custom variant it returns the override's result instead.
C5_DescriptionResolution ==
    err # NoneV =>
        LET r == ErrorKind_description(links, err.kind)
            d == ErrLink.custom_description
        IN  /\ ErrTag = "Msg" =>
                   (r.sort = "str" /\ r.chars = err.kind.fields[1].chars)
            /\ (ErrTag \in {"Chainable", "Foreign"} /\ d = NoneV) =>
                   r = err.kind.fields[1].description
            /\ (ErrTag = "Custom" /\ d = NoneV) =>
                   (r.sort = "str" /\ r.chars = err.kind.variant)
            /\ (ErrTag # "Msg" /\ d # NoneV /\ d.val.tag = "Expr") =>
                   IsCallOf(r, "description", err.kind.fields)
            /\ (ErrTag # "Msg" /\ d # NoneV /\ d.val.tag = "FormatString") =>
                   (r.sort = "str" /\ r.template = TemplateFor(ErrLink.variant_fields))

\* C5 witness: a custom variant with two fields and a description override
\* given as a path; description() is the call of that function on both fields.
C5_Witness ==
    /\ err # NoneV
    /\ err.kind.variant = "HttpStatus"
    /\ Len(err.kind.fields) = 2
    /\ ErrorKind_description(links, err.kind)
           = Call([id |-> "description"], "path", <<FieldValue(1), FieldValue(2)>>)

\* C6: with no display override, Display of a chainable variant is the sibling
\* kind's Display, of a foreign variant the foreign error's Display, and of a
\* custom variant exactly what description() returns (the variant's identifier
\* without a description override, the override's result with one); the
\* wrapper's Display is its kind's Display.
C6_DisplayResolution ==
    err # NoneV =>
        LET w == ErrorKind_fmt(links, err.kind)
            d == ErrLink.custom_description
        IN  /\ (ErrTag \in {"Chainable", "Foreign"} /\ ErrLink.custom_display = NoneV) =>
                   w = <<err.kind.fields[1].display>>
            /\ (ErrTag = "Custom" /\ ErrLink.custom_display = NoneV) =>
                   /\ w = <<ErrorKind_description(links, err.kind)>>
                   /\ d = NoneV => w = <<MkStr(err.kind.variant)>>
                   /\ (d # NoneV /\ d.val.tag = "Expr") =>
                          IsCallOf(w[1], "description", err.kind.fields)
                   /\ (d # NoneV /\ d.val.tag = "FormatString") =>
                          w[1].template = TemplateFor(ErrLink.variant_fields)
            /\ Error_fmt(links, err) = w

\* C6 witness: a custom variant with a description override and no display
\* override; Display writes the override's result.
C6_Witness ==
    /\ err # NoneV
    /\ ErrTag = "Custom"
    /\ ErrLink.custom_display = NoneV
    /\ ErrLink.custom_description # NoneV
    /\ Error_fmt(links, err) = <<Call([id |-> "description"], "closure", err.kind.fields)>>

\* C7: cause() of the wrapper returns the immediate chained cause when the
\* state holds one, whatever the kind and its cause override; otherwise
\* Some(result of the cause override) when the variant has one, otherwise the
\* foreign error's own cause() for a foreign variant, otherwise None.
C7_CauseResolution ==
    err # NoneV =>
        LET c == Error_cause(links, err)
        IN  /\ err.state.next_error # NoneV => c = Some(err.state.next_error.val)
            /\ (err.state.next_error = NoneV /\ ErrLink.custom_cause # NoneV) =>
                   (c.tag = "Some" /\ IsCallOf(c.val, "cause", err.kind.fields))
            /\ (err.state.next_error = NoneV /\ ErrLink.custom_cause = NoneV
                    /\ ErrTag = "Foreign") =>
                   c = err.kind.fields[1].cause
            /\ (err.state.next_error = NoneV /\ ErrLink.custom_cause = NoneV
                    /\ ErrTag # "Foreign") =>
                   c = NoneV

\* C7 witness: a foreign variant with a cause override, wrapping an error that
\* has a cause of its own, chained onto another error: cause() is the chained
\* error.
C7_Witness ==
    /\ err # NoneV
    /\ op.name = "with_chain"
    /\ ErrTag = "Foreign"
    /\ ErrLink.custom_cause # NoneV
    /\ err.kind.fields[1].cause = Some(ForeignErrorCause)
    /\ op.arg # ForeignErrorCause
    /\ Error_cause(links, err) = Some(op.arg)

ForeignWithoutCauseOverride ==
    err # NoneV /\ ErrTag = "Foreign" /\ ErrLink.custom_cause = NoneV

\* C8 (as stated): for every wrapper whose kind is a foreign variant without a
\* cause override, however it was constructed, cause() is the foreign error's
\* own cause().
C8_ForeignCauseHoweverConstructed ==
    ForeignWithoutCauseOverride => Error_cause(links, err) = err.kind.fields[1].cause

\* C8 (amended): for a wrapper whose kind is a foreign variant without a cause
\* override, cause() is the foreign error's own cause() when the state holds no
\* immediate cause, and the immediate cause when it holds one.
C8_ForeignCauseWithoutChain ==
    ForeignWithoutCauseOverride =>
        /\ err.state.next_error = NoneV
               => Error_cause(links, err) = err.kind.fields[1].cause
        /\ err.state.next_error # NoneV
               => Error_cause(links, err) = err.state.next_error

\* C8 witness: From<foreign> of an error that has a cause; the wrapper's
\* cause() is that cause.
C8_Witness ==
    /\ ForeignWithoutCauseOverride
    /\ op.name = "From<foreign error>"
    /\ op.arg.cause = Some(ForeignErrorCause)
    /\ Error_cause(links, err) = Some(ForeignErrorCause)

\* C9: converting a String or a &str s into the kind and then into the
\* wrapper, or directly into the wrapper, gives a wrapper whose kind is Msg(s),
\* whose description() is s and whose state holds no immediate cause.
C9_StringRoundTrip ==
    (err # NoneV /\ op.name \in {"From<String>", "From<String> for ErrorKind"}) =>
        /\ ErrTag = "Msg"
        /\ err.kind.fields = <<MkString(op.arg.chars)>>
        /\ Error_description(links, err) = MkStr(op.arg.chars)
        /\ err.state.next_error = NoneV

\* C9 witness: a &str converted into the kind and then into the wrapper.
C9_Witness ==
    /\ err # NoneV
    /\ op.name = "From<String> for ErrorKind"
    /\ op.arg = MkStr("borrowed")
    /\ err.kind = ErrorKind("Msg", <<MkString("borrowed")>>)
    /\ Error_description(links, err) = MkStr("borrowed")

\* C10: converting a sibling wrapper S(k, st) into the wrapper gives exactly
\* Error(V(k), st) for the chainable variant V: the same immediate cause and
\* the same backtrace handle, none newly captured.
C10_ChainableKeepsState ==
    (err # NoneV /\ op.name = "From<sibling error>") =>
        /\ err.kind = ErrorKind(TheLink("Chainable").variant_ident, <<op.arg.kind>>)
        /\ err.state = op.arg.state
        /\ err.state.next_error = op.arg.state.next_error
        /\ err.state.backtrace = op.arg.state.backtrace

\* C10 witness: the sibling holds a cause and a backtrace, and backtraces are
\* being captured when it is converted.
C10_Witness ==
    /\ err # NoneV
    /\ op.name = "From<sibling error>"
    /\ op.env = Some("1")
    /\ op.arg.state = State(Some(ForeignErrorCause), Some(Backtrace(0)))
    /\ err = Error(ErrorKind("Other", <<SiblingKind(2)>>), op.arg.state)

(***************************************************************************)
(* Iteration over the chain of an error: the iterator starts at the error  *)
(* and moves to its cause() until there is none.                           *)
(***************************************************************************)
\* cause() of any error in a chain: a wrapper error, a foreign error, or the
\* result of a cause override, below which the chain is not followed.
cause(ls, e) ==
    IF e.sort = "Error"
    THEN Error_cause(ls, e)
    ELSE IF e.sort = "ForeignError"
    THEN e.cause
    ELSE NoneV

\* Iterator::next, until it returns None: the errors yielded, in order.
RECURSIVE ChainIter(_, _)
ChainIter(ls, e) ==
    <<e>> \o (IF cause(ls, e) = NoneV THEN <<>> ELSE ChainIter(ls, cause(ls, e).val))

\* err is E1 = E0.chain_err(|| kind), with E0 = op.arg and kind = op.kind.
Extended == op.name = "chain_err"

\* C14 (as stated): for a wrapper error E0 that is not itself chained and
\* E1 = E0.chain_err(closure), E1's kind is the closure's result, E1's immediate
\* cause is E0, E1 is displayed as its own kind, and iterating E1 yields E1,
\* then E0, and nothing more.
C14_ChainEndsAfterBase ==
    (Extended /\ op.arg.state.next_error = NoneV) =>
        /\ err.kind = op.kind
        /\ err.state.next_error = Some(op.arg)
        /\ Error_fmt(links, err) = ErrorKind_fmt(links, op.kind)
        /\ ChainIter(links, err) = <<err, op.arg>>

\* C14 (amended): E1 = E0.chain_err(closure) has the closure's result as its
\* kind and E0 as its immediate cause, and iterating E1 yields E1 and then
\* what iterating E0 yields: E0 alone exactly when E0 has no cause of its own.
C14_ChainExtension ==
    Extended =>
        /\ err.kind = op.kind
        /\ err.state.next_error = Some(op.arg)
        /\ Error_fmt(links, err) = ErrorKind_fmt(links, op.kind)
        /\ ChainIter(links, err) = <<err>> \o ChainIter(links, op.arg)
        /\ ChainIter(links, err) = <<err, op.arg>> <=> Error_cause(links, op.arg) = NoneV

\* C14 witness: a wrapper converted from a foreign error that has a cause was
\* extended; the iteration yields the new wrapper, the old one, and that cause.
C14_Witness ==
    /\ Extended
    /\ op.arg.state.next_error = NoneV
    /\ Len(op.arg.kind.fields) = 1
    /\ op.arg.kind.fields[1].sort = "ForeignError"
    /\ Len(ChainIter(links, err)) = 3
    /\ ChainIter(links, err)[2] = op.arg
    /\ ChainIter(links, err)[3] = ForeignErrorCause

(***************************************************************************)
(* derive_error_chain (lib.rs 607-895): the expansion of one enum.         *)
(*                                                                         *)
(* The derive input: the enum's identifier, its attributes, its generic    *)
(* parameters, and its data (an enum with variants, or something else).    *)
(***************************************************************************)
\* Most variants of a declared enum.
MaxVariants == 2

TypeParam(ident) == [kind |-> "Type", ident |-> ident]
LifetimeParam(ident) == [kind |-> "Lifetime", ident |-> ident]
DeriveInput(ident, attrs, params, data, variants) ==
    [ident |-> ident, attrs |-> attrs, generics |-> params, data |-> data,
     variants |-> variants]

\* lib.rs 628-637: the identifiers of the type parameters.
generics(input) ==
    {input.generics[i].ident : i \in {j \in 1..Len(input.generics) :
                                        input.generics[j].kind = "Type"}}

(***************************************************************************)
(* impl From<&DeriveInput> for TopLevelProperties (lib.rs 907-976).        *)
(* A nested item of a top-level attribute is a word, `key = literal` with  *)
(* the literal's kind (Str, Bool, Int) and its text, or a bare literal.    *)
(***************************************************************************)
TopItem(kind, ident, lit, value) ==
    [kind |-> kind, ident |-> ident, lit |-> lit, value |-> value]
TopWord(ident) == TopItem("Word", ident, "none", "")
TopNameValue(ident, lit, value) == TopItem("NameValue", ident, lit, value)
TopLiteral == TopItem("Literal", "", "Str", "")
\* #[error_chain]: an error_chain attribute that is no meta list.
WordAttr == [path |-> PathErrorChain, meta |-> MetaOther("Word"), tts |-> NoTokens]

\* Variation: the crate alias is always that of the default error name.
CrateName_of_default(error_name) == [prefix |-> "Error", suffix |-> "_error_chain"]

\* format!("{}_error_chain", error_name)
CrateName(error_name) == [prefix |-> error_name, suffix |-> "_error_chain"]

TopLevelProperties(error_kind_name, error_name, result_ext_name, result_name, error_chain_name, support_backtrace) ==
    [error_kind_name |-> error_kind_name, error_name |-> error_name,
     result_ext_name |-> result_ext_name, result_name |-> result_name,
     error_chain_name |-> error_chain_name, support_backtrace |-> support_backtrace]

\* lib.rs 909-912: the locals and their defaults.
TopLocals ==
    [error_name |-> "Error", result_ext_name |-> "ResultExt",
     result_name |-> Some("Result"), support_backtrace |-> TRUE]

\* Variation: every string is a boolean, true only for "true".
parse_bool_lenient(value) == Ok(value = "true")

\* str::parse::<bool>
parse_bool(value) ==
    IF value = "true" THEN Ok(TRUE) ELSE IF value = "false" THEN Ok(FALSE) ELSE NoneV

\* Variation: an error name once given is kept.
top_name_value_first_wins(p, ident, value) ==
    IF ident = "error"
    THEN IF parse_ident(value) # NoneV
         THEN Ok([p EXCEPT !.error_name =
                     IF p.error_name = "Error" THEN parse_ident(value).val ELSE @])
         ELSE Panic("ValueNotAnIdentifier", "", "error")
    ELSE IF ident = "result_ext"
    THEN IF parse_ident(value) # NoneV
         THEN Ok([p EXCEPT !.result_ext_name = parse_ident(value).val])
         ELSE Panic("ValueNotAnIdentifier", "", "result_ext")
    ELSE IF ident = "result"
    THEN IF value = ""
         THEN Ok([p EXCEPT !.result_name = NoneV])
         ELSE IF parse_ident(value) # NoneV
         THEN Ok([p EXCEPT !.result_name = Some(parse_ident(value).val)])
         ELSE Panic("ValueNotAnIdentifier", "", "result")
    ELSE IF ident = "backtrace"
    THEN IF parse_bool(value) # NoneV
         THEN Ok([p EXCEPT !.support_backtrace = parse_bool(value).val])
         ELSE Panic("BacktraceValue", "", "backtrace")
    ELSE Panic("ExpectedTopLevelKeyButGot", "", ident)

\* lib.rs 923-948: key = "string literal".
top_name_value(p, ident, value) ==
    IF ident = "error"
    THEN IF parse_ident(value) # NoneV
         THEN Ok([p EXCEPT !.error_name = parse_ident(value).val])
         ELSE Panic("ValueNotAnIdentifier", "", "error")
    ELSE IF ident = "result_ext"
    THEN IF parse_ident(value) # NoneV
         THEN Ok([p EXCEPT !.result_ext_name = parse_ident(value).val])
         ELSE Panic("ValueNotAnIdentifier", "", "result_ext")
    ELSE IF ident = "result"
    THEN IF value = ""
         THEN Ok([p EXCEPT !.result_name = NoneV])
         ELSE IF parse_ident(value) # NoneV
         THEN Ok([p EXCEPT !.result_name = Some(parse_ident(value).val)])
         ELSE Panic("ValueNotAnIdentifier", "", "result")
    ELSE IF ident = "backtrace"
    THEN IF parse_bool(value) # NoneV
         THEN Ok([p EXCEPT !.support_backtrace = parse_bool(value).val])
         ELSE Panic("BacktraceValue", "", "backtrace")
    ELSE Panic("ExpectedTopLevelKeyButGot", "", ident)

\* Variation: an item that is not understood is skipped.
top_nested_meta_skips(p, nm) ==
    IF nm.kind = "NameValue" /\ nm.lit = "Str"
    THEN top_name_value(p, nm.ident, nm.value)
    ELSE IF nm.kind = "NameValue" /\ nm.lit = "Bool" /\ nm.ident = "backtrace"
    THEN Ok([p EXCEPT !.support_backtrace = (nm.value = "true")])
    ELSE Ok(p)

\* lib.rs 922-955: one nested item of a top-level meta list.
top_nested_meta(p, nm) ==
    IF nm.kind = "NameValue" /\ nm.lit = "Str"
    THEN top_name_value(p, nm.ident, nm.value)
    ELSE IF nm.kind = "NameValue" /\ nm.lit = "Bool" /\ nm.ident = "backtrace"
    THEN Ok([p EXCEPT !.support_backtrace = (nm.value = "true")])
    ELSE Panic("ExpectedTopLevelKey", "", "")

RECURSIVE top_nested_loop(_, _, _)
top_nested_loop(p, nested, i) ==
    IF i > Len(nested)
    THEN Ok(p)
    ELSE LET r == top_nested_meta(p, nested[i])
         IN  IF r.tag = "Ok" THEN top_nested_loop(r.val, nested, i + 1) ELSE r

\* lib.rs 914-961: the body of `for attr in &ast.attrs`.
top_read_attr(p, attr) ==
    IF ~is_error_chain_attribute(attr)
    THEN Ok(p)
    ELSE IF attr.meta # NoneV /\ attr.meta.val.kind = "List"
    THEN top_nested_loop(p, attr.meta.val.nested, 1)
    ELSE Panic("ExpectedTopLevelKey", "", "")

RECURSIVE top_attrs_loop(_, _, _)
top_attrs_loop(p, attrs, i) ==
    IF i > Len(attrs)
    THEN Ok(p)
    ELSE LET r == top_read_attr(p, attrs[i])
         IN  IF r.tag = "Ok" THEN top_attrs_loop(r.val, attrs, i + 1) ELSE r

TopLevelProperties_from(input) ==
    LET r == top_attrs_loop(TopLocals, input.attrs, 1)
    IN  IF r.tag = "Panic"
        THEN r
        ELSE Ok(TopLevelProperties(input.ident, r.val.error_name, r.val.result_ext_name,
                                   r.val.result_name, CrateName(r.val.error_name),
                                   r.val.support_backtrace))

(***************************************************************************)
(* The generated items (lib.rs 713-888).  An item is what it is, the       *)
(* identifier of the generated type or trait it defines or is for, the     *)
(* type it converts from, and the variant it is generated for.             *)
(***************************************************************************)
NoType == [tag |-> "None"]
Item(item, name, ty, variant_ident) ==
    [item |-> item, name |-> name, ty |-> ty, variant |-> variant_ident]

\* Variation: a custom link gets the string conversions too.
error_kind_from_impl_custom(link, error_kind_name) ==
    IF link.link_type.tag \in {"Msg", "Custom"}
    THEN <<Item("impl From<&str>", error_kind_name, NoType, link.variant_ident),
           Item("impl From<String>", error_kind_name, NoType, link.variant_ident)>>
    ELSE IF link.link_type.tag = "Chainable"
    THEN <<Item("impl From", error_kind_name, link.link_type.error_kind_ty,
                link.variant_ident)>>
    ELSE <<>>

\* Link::error_kind_from_impl (lib.rs 1314-1343)
error_kind_from_impl(link, error_kind_name) ==
    IF link.link_type.tag = "Msg"
    THEN <<Item("impl From<&str>", error_kind_name, NoType, link.variant_ident),
           Item("impl From<String>", error_kind_name, NoType, link.variant_ident)>>
    ELSE IF link.link_type.tag = "Chainable"
    THEN <<Item("impl From", error_kind_name, link.link_type.error_kind_ty,
                link.variant_ident)>>
    ELSE <<>>

\* Variation: a foreign type that mentions a type parameter anywhere is skipped.
error_from_impl_mentions(link, error_name, params) ==
    IF link.link_type.tag = "Msg"
    THEN <<Item("impl From<&str>", error_name, NoType, link.variant_ident),
           Item("impl From<String>", error_name, NoType, link.variant_ident)>>
    ELSE IF link.link_type.tag = "Chainable"
    THEN <<Item("impl From", error_name, link.link_type.error_ty, link.variant_ident)>>
    ELSE IF /\ link.link_type.tag = "Foreign"
            /\ link.link_type.ty.kind = "Path"
            /\ (link.link_type.ty.args
                \/ \E i \in 1..Len(link.link_type.ty.segs) :
                       link.link_type.ty.segs[i] \in params)
    THEN <<>>
    ELSE IF link.link_type.tag = "Foreign"
    THEN <<Item("impl From", error_name, link.link_type.ty, link.variant_ident)>>
    ELSE <<>>

\* Link::error_from_impl (lib.rs 1384-1426)
error_from_impl(link, error_name, params) ==
    IF link.link_type.tag = "Msg"
    THEN <<Item("impl From<&str>", error_name, NoType, link.variant_ident),
           Item("impl From<String>", error_name, NoType, link.variant_ident)>>
    ELSE IF link.link_type.tag = "Chainable"
    THEN <<Item("impl From", error_name, link.link_type.error_ty, link.variant_ident)>>
    ELSE IF /\ link.link_type.tag = "Foreign"
            /\ link.link_type.ty.kind = "Path"
            /\ ~link.link_type.ty.global
            /\ Len(link.link_type.ty.segs) = 1
            /\ link.link_type.ty.segs[1] \in params
    THEN <<>>
    ELSE IF link.link_type.tag = "Foreign"
    THEN <<Item("impl From", error_name, link.link_type.ty, link.variant_ident)>>
    ELSE <<>>

\* Variation: a foreign link contributes a check of its type as well.
chained_error_extract_backtrace_case_foreign(link, error_name) ==
    IF link.link_type.tag = "Chainable"
    THEN <<Item("extract_backtrace case", error_name, link.link_type.error_ty,
                link.variant_ident)>>
    ELSE IF link.link_type.tag = "Foreign"
    THEN <<Item("extract_backtrace case", error_name, link.link_type.ty,
                link.variant_ident)>>
    ELSE <<>>

\* Link::chained_error_extract_backtrace_case (lib.rs 1428-1440)
chained_error_extract_backtrace_case(link, error_name) ==
    IF link.link_type.tag = "Chainable"
    THEN <<Item("extract_backtrace case", error_name, link.link_type.error_ty,
                link.variant_ident)>>
    ELSE <<>>

\* The items of every link, in declaration order.
RECURSIVE FlatMap(_, _, _)
FlatMap(F(_), ls, i) == IF i > Len(ls) THEN <<>> ELSE F(ls[i]) \o FlatMap(F, ls, i + 1)

\* lib.rs 653, 655: every link has a description arm and a display arm.
error_kind_description_cases(ls, error_kind_name) ==
    FlatMap(LAMBDA link : <<Item("description arm", error_kind_name, NoType,
                                 link.variant_ident)>>, ls, 1)
error_kind_display_cases(ls, error_kind_name) ==
    FlatMap(LAMBDA link : <<Item("display arm", error_kind_name, NoType,
                                 link.variant_ident)>>, ls, 1)
\* lib.rs 664, 1345-1383: a cause arm for an override and for a foreign link,
\* none for Msg.
error_cause_cases(ls, error_kind_name) ==
    FlatMap(LAMBDA link :
                IF link.link_type.tag # "Msg"
                   /\ (link.custom_cause # NoneV \/ link.link_type.tag = "Foreign")
                THEN <<Item("cause arm", error_kind_name, NoType, link.variant_ident)>>
                ELSE <<>>, ls, 1)

\* lib.rs 682-699
extract_backtrace_fn(p, ls) ==
    IF p.support_backtrace
    THEN <<Item("fn extract_backtrace", p.error_name, NoType, "")>>
         \o FlatMap(LAMBDA link : chained_error_extract_backtrace_case(link, p.error_name),
                    ls, 1)
    ELSE <<>>

\* Variation: the alias is generated even without a result name.
result_wrapper_always(p) ==
    <<Item("type alias", IF p.result_name # NoneV THEN p.result_name.val ELSE "Result",
           NoType, "")>>

\* lib.rs 708-711
result_wrapper(p) ==
    IF p.result_name # NoneV
    THEN <<Item("type alias", p.result_name.val, NoType, "")>>
    ELSE <<>>

\* lib.rs 713-888: the token stream, item by item.
quote_items(p, params, ls) ==
    <<Item("extern crate error_chain as", p.error_name, NoType, "_error_chain"),
      Item("impl description", p.error_kind_name, NoType, "")>>
    \o error_kind_description_cases(ls, p.error_kind_name)
    \o <<Item("impl Display", p.error_kind_name, NoType, "")>>
    \o error_kind_display_cases(ls, p.error_kind_name)
    \o FlatMap(LAMBDA link : error_kind_from_impl(link, p.error_kind_name), ls, 1)
    \o <<Item("impl From<Error>", p.error_kind_name, NoType, ""),
         Item("struct", p.error_name, NoType, ""),
         Item("impl", p.error_name, NoType, ""),
         Item("impl Error", p.error_name, NoType, "")>>
    \o error_cause_cases(ls, p.error_kind_name)
    \o <<Item("impl Display", p.error_name, NoType, "")>>
    \o FlatMap(LAMBDA link : error_from_impl(link, p.error_name, params), ls, 1)
    \o <<Item("impl From<ErrorKind>", p.error_name, NoType, ""),
         Item("impl Deref", p.error_name, NoType, ""),
         Item("impl ChainedError", p.error_name, NoType, "")>>
    \o extract_backtrace_fn(p, ls)
    \o <<Item("trait", p.result_ext_name, NoType, ""),
         Item("impl for Result", p.result_ext_name, NoType, ""),
         Item("impl for Option", p.result_ext_name, NoType, "")>>
    \o result_wrapper(p)

\* lib.rs 651: the variants are converted in order; the first panic ends it.
RECURSIVE collect_links(_, _, _)
collect_links(variants, i, acc) ==
    IF i > Len(variants)
    THEN Ok(acc)
    ELSE LET r == Link_from(variants[i])
         IN  IF r.tag = "Ok" THEN collect_links(variants, i + 1, Append(acc, r.val)) ELSE r

\* The whole expansion of one derive input.
derive_error_chain(input) ==
    LET p == TopLevelProperties_from(input)
    IN  IF p.tag = "Panic"
        THEN p
        ELSE IF input.data # "Enum"
        THEN Panic("OnlyEnums", "", "")
        ELSE LET ls == collect_links(input.variants, 1, <<>>)
             IN  IF ls.tag = "Panic"
                 THEN ls
                 ELSE Ok(quote_items(p.val, generics(input), ls.val))

(***************************************************************************)
(* Derive inputs.                                                          *)
(***************************************************************************)
\* Foreign types of a generic enum: T, Box<T>, ::T, m::T.
TParam == PathType(FALSE, <<"T">>, FALSE)
TBoxOfParam == PathType(FALSE, <<"Box">>, TRUE)
TGlobalParam == PathType(TRUE, <<"T">>, FALSE)
TQualifiedParam == PathType(FALSE, <<"m", "T">>, FALSE)
ForeignTypes == {TForeign, TParam, TBoxOfParam, TGlobalParam, TQualifiedParam}
GenericsInputs == {<<>>, <<TypeParam("T")>>, <<LifetimeParam("a"), TypeParam("U")>>}

DocAttr == ForeignAttr(AttrPath(FALSE, <<"doc">>, FALSE))
CustomAttr == ListAttr(<<Word("custom")>>)
GoodVariants ==
    {MsgVariant,
     ChainableVariant(<<"none", "none", "none">>),
     Variant("HttpStatus", Unnamed(<<TU32>>), <<DocAttr, CustomAttr>>),
     Variant("Tagged", Unit,
             <<ForeignAttr(AttrPath(TRUE, <<"error_chain">>, FALSE)), CustomAttr,
               ForeignAttr(AttrPath(FALSE, <<"other", "error_chain">>, FALSE))>>)}
    \cup {Variant("Foreign", Unnamed(<<t>>), <<ListAttr(<<Word("foreign")>>)>>) :
             t \in ForeignTypes}
\* Variants whose conversion panics: no marker; an unknown word; an unknown key
\* with a string, with tokens, with another literal; a rejected format string.
BadVariants ==
    {Variant("Unmarked", Unit, <<DocAttr>>),
     Variant("BadWord", Unit, <<ListAttr(<<Word("custom"), Word("bogus")>>)>>),
     Variant("BadKey", Unit,
             <<ListAttr(<<Word("custom"), NameValue("bogus", "Str", TxtPath)>>)>>),
     Variant("BadTokensKey", Unit, <<CustomAttr, TokensAttr(Assign("bogus", TxtPath))>>),
     Variant("BadLitKey", Unit,
             <<ListAttr(<<Word("custom"), NameValue("bogus", "Int", TxtEmpty)>>)>>),
     Variant("BadTemplate", Unit,
             <<CustomAttr, TokensAttr(Assign("display", TxtConst(TplNext)))>>)}
VariantInputs == GoodVariants \cup BadVariants
\* Up to MaxVariants variants, no identifier declared twice.
VariantLists ==
    {vs \in UNION {[1..n -> VariantInputs] : n \in 1..MaxVariants} :
        \A i, j \in 1..Len(vs) : i # j => vs[i].ident # vs[j].ident}

TopItems ==
    {TopNameValue("error", "Str", "MyError"), TopNameValue("error", "Str", "type"),
     TopNameValue("result_ext", "Str", "MyResultExt"),
     TopNameValue("result_ext", "Str", ""),
     TopNameValue("result", "Str", "MyResult"), TopNameValue("result", "Str", ""),
     TopNameValue("result", "Str", "type"),
     TopNameValue("backtrace", "Str", "true"), TopNameValue("backtrace", "Str", "false"),
     TopNameValue("backtrace", "Str", "yes"),
     TopNameValue("backtrace", "Bool", "true"), TopNameValue("backtrace", "Bool", "false"),
     TopNameValue("bogus", "Str", "x"), TopNameValue("bogus", "Bool", "true"),
     TopNameValue("error", "Bool", "true"), TopNameValue("error", "Int", "5"),
     TopWord("backtrace"), TopWord("bogus"), TopLiteral}
TopAttrLists ==
    {<<>>, <<WordAttr>>,
     <<DocAttr, ListAttr(<<TopNameValue("error", "Str", "MyError")>>)>>,
     <<ListAttr(<<TopNameValue("error", "Str", "MyError"),
                  TopNameValue("result_ext", "Str", "MyResultExt"),
                  TopNameValue("result", "Str", "MyResult")>>)>>,
     <<ListAttr(<<TopNameValue("error", "Str", "MyError")>>),
       ListAttr(<<TopNameValue("error", "Str", "Other")>>)>>}
    \cup {<<ListAttr(<<it>>)>> : it \in TopItems}
    \cup {<<ForeignAttr(path)>> : path \in OtherPaths}
\* The top-level attributes that are combined with every list of variants.
FewTopAttrLists ==
    {<<>>, <<DocAttr>>,
     <<ListAttr(<<TopNameValue("result", "Str", "")>>)>>,
     <<ListAttr(<<TopNameValue("backtrace", "Bool", "false")>>)>>,
     <<ListAttr(<<TopWord("bogus")>>)>>}
\* A custom variant with one description or display override: the key, the
\* way the value is how (a string literal, or tokens) and its text.
OverrideTexts == {TxtClosure, TxtPath, TxtConst(TplPos0), TxtGarbage}
OverrideVariant(key, how, text) ==
    Variant("Override", Unnamed(<<TU32>>),
            <<CustomAttr,
              IF how = "Str"
              THEN ListAttr(<<NameValue(key, "Str", text)>>)
              ELSE TokensAttr(Assign(key, text))>>)
OverrideVariants ==
    {OverrideVariant(key, how, text) :
        key \in {"description", "display"}, how \in {"Str", "Tokens"},
        text \in OverrideTexts}
OverrideInputs ==
    {DeriveInput("ErrorKind", <<>>, <<>>, "Enum", vs) :
        vs \in {<<v>> : v \in OverrideVariants}
               \cup {<<MsgVariant, v>> : v \in OverrideVariants}}

\* Enums with two chainable variants, in both orders, and with other links
\* around them; with and without backtrace support.
AnotherVariant ==
    Variant("Another", Unnamed(<<PathType(FALSE, <<"another", "ErrorKind">>, FALSE)>>),
            <<ListAttr(<<NameValue("link", "Str", Text("path", "another::Error"))>>)>>)
TwoChainableInputs ==
    {DeriveInput("ErrorKind", a, <<>>, "Enum", vs) :
        a \in {<<>>, <<ListAttr(<<TopNameValue("backtrace", "Str", "false")>>)>>},
        vs \in {<<ChainableVariant(<<"none", "none", "none">>), AnotherVariant>>,
                <<AnotherVariant, ChainableVariant(<<"none", "none", "none">>)>>,
                <<AnotherVariant, MsgVariant>>,
                <<Variant("Foreign", Unnamed(<<TForeign>>), <<ListAttr(<<Word("foreign")>>)>>),
                  AnotherVariant>>}}

\* Enums whose variants have cause arms: a cause override, a foreign link.
CauseInputs ==
    {DeriveInput("ErrorKind", <<>>, <<>>, "Enum", vs) :
        vs \in {<<ChainableVariant(<<"none", "none", "path">>), AnotherVariant>>,
                <<Variant("Foreign", Unnamed(<<TForeign>>), <<ListAttr(<<Word("foreign")>>)>>),
                  ChainableVariant(<<"none", "none", "closure">>)>>,
                <<ChainableVariant(<<"none", "none", "closure">>),
                  Variant("Foreign", Unnamed(<<TForeign>>), <<ListAttr(<<Word("foreign")>>)>>)>>}}

\* Msg variants that carry error_chain attributes: markers, overrides,
\* unrecognized words and keys, values that no other variant could carry.
MsgAttrs ==
    {<<ListAttr(<<Word("bogus")>>)>>,
     <<ListAttr(<<Word("custom")>>)>>,
     <<ListAttr(<<Word("foreign"), Word("custom")>>)>>,
     <<ListAttr(<<NameValue("link", "Str", TxtGarbage)>>)>>,
     <<ListAttr(<<NameValue("description", "Str", TxtGarbage)>>)>>,
     <<ListAttr(<<NameValue("cause", "Str", TxtClosure)>>)>>,
     <<ListAttr(<<NameValue("bogus", "Int", TxtEmpty)>>)>>,
     <<DocAttr, TokensAttr(Assign("display", TxtConst(TplNext)))>>,
     <<TokensAttr(Assign("bogus", TxtPath))>>}
MsgOfWrongShape == Variant("Msg", Unnamed(<<TU32>>), <<CustomAttr>>)
MsgAttrInputs ==
    {DeriveInput("ErrorKind", <<>>, <<>>, "Enum", vs) :
        vs \in UNION {{<<Variant("Msg", Unnamed(<<TString>>), a)>>,
                       <<Variant("Msg", Unnamed(<<TString>>), a),
                         Variant("HttpStatus", Unnamed(<<TU32>>), <<DocAttr, CustomAttr>>)>>,
                       <<AnotherVariant, Variant("Msg", Unnamed(<<TString>>), a)>>} :
                          a \in MsgAttrs}
                \cup {<<MsgOfWrongShape>>}}

\* Enums and variants that give a key or a marker more than once, in one
\* attribute and across attributes; in the last of each, the first occurrence
\* is not valid.
RepeatTops ==
    {<<ListAttr(<<TopNameValue("result", "Str", "MyResult"),
                  TopNameValue("result", "Str", "")>>)>>,
     <<ListAttr(<<TopNameValue("result", "Str", "")>>), DocAttr,
       ListAttr(<<TopNameValue("result", "Str", "MyResult")>>)>>,
     <<ListAttr(<<TopNameValue("backtrace", "Str", "false"),
                  TopNameValue("error", "Str", "Other"),
                  TopNameValue("backtrace", "Bool", "true")>>),
       ListAttr(<<TopNameValue("error", "Str", "MyError")>>)>>,
     <<ListAttr(<<TopNameValue("result_ext", "Str", "Other"),
                  TopNameValue("result_ext", "Str", "MyResultExt")>>)>>,
     <<ListAttr(<<TopNameValue("error", "Str", "type")>>),
       ListAttr(<<TopNameValue("error", "Str", "MyError")>>)>>}
RepeatVariants ==
    {Variant("HttpStatus", Unnamed(<<TU32>>), attrs) :
        attrs \in {<<ListAttr(<<Word("custom"), NameValue("description", "Str", TxtPath),
                                NameValue("description", "Str", TxtClosure)>>)>>,
                   <<CustomAttr, TokensAttr(Assign("display", TxtConst(TplPos0))),
                     ListAttr(<<NameValue("display", "Str", TxtPath)>>)>>,
                   <<ListAttr(<<Word("foreign")>>), DocAttr, CustomAttr>>,
                   <<CustomAttr,
                     ListAttr(<<NameValue("link", "Str", Text("path", "another::Error"))>>)>>,
                   <<ListAttr(<<Word("custom"), NameValue("cause", "Str", TxtClosure),
                                NameValue("cause", "Str", TxtPath)>>)>>,
                   <<ListAttr(<<Word("custom"), NameValue("description", "Str", TxtGarbage),
                                NameValue("description", "Str", TxtPath)>>)>>}}
RepeatInputs ==
    {DeriveInput("ErrorKind", a, <<>>, "Enum", <<v>>) :
        a \in RepeatTops \cup {<<>>}, v \in RepeatVariants}

DeriveInputs ==
    {DeriveInput("ErrorKind", a, <<>>, "Enum", <<v>>) :
        a \in TopAttrLists, v \in {MsgVariant, ChainableVariant(<<"none", "none", "none">>)}}
    \cup {DeriveInput("ErrorKind", a, g, "Enum", vs) :
             a \in FewTopAttrLists, g \in GenericsInputs, vs \in VariantLists}
    \cup {DeriveInput("ErrorKind", a, <<>>, "Struct", <<>>) : a \in FewTopAttrLists}
    \cup OverrideInputs
    \cup TwoChainableInputs
    \cup CauseInputs
    \cup MsgAttrInputs
    \cup RepeatInputs

(***************************************************************************)
(* derive_error_chain in its steps: the top-level properties are read, the *)
(* input's data is matched, the variants are converted one by one, and the *)
(* items are generated and returned.  A panic ends the expansion.          *)
(***************************************************************************)
ExpandInit ==
    /\ LinkIdle
    /\ links = <<>>
    /\ err = NoneV
    /\ op = NoOp
    /\ FmtIdle
    /\ ast \in DeriveInputs
    /\ xpc = "top"
    /\ props = NoneV
    /\ collected = <<>>
    /\ result = NoneV

ExpandFrame == UNCHANGED <<linkVars, runVars, fmtVars, ast>>

\* lib.rs 639-647
ReadTopLevel ==
    /\ xpc = "top"
    /\ LET r == TopLevelProperties_from(ast)
       IN  IF r.tag = "Ok"
           THEN props' = Some(r.val) /\ xpc' = "data" /\ result' = result
           ELSE props' = props /\ xpc' = "panicked" /\ result' = r
    /\ UNCHANGED collected
    /\ ExpandFrame

\* lib.rs 649-650, 891
MatchData ==
    /\ xpc = "data"
    /\ IF ast.data = "Enum"
       THEN xpc' = "variants" /\ result' = result
       ELSE xpc' = "panicked" /\ result' = Panic("OnlyEnums", "", "")
    /\ UNCHANGED <<props, collected>>
    /\ ExpandFrame

\* Variation: the converted variant is put in front of the earlier ones.
ConvertVariant_prepend ==
    /\ xpc = "variants"
    /\ Len(collected) < Len(ast.variants)
    /\ LET r == Link_from(ast.variants[Len(collected) + 1])
       IN  IF r.tag = "Ok"
           THEN collected' = <<r.val>> \o collected /\ xpc' = xpc /\ result' = result
           ELSE collected' = collected /\ xpc' = "panicked" /\ result' = r
    /\ UNCHANGED props
    /\ ExpandFrame

\* lib.rs 651: the next variant is converted.
ConvertVariant ==
    /\ xpc = "variants"
    /\ Len(collected) < Len(ast.variants)
    /\ LET r == Link_from(ast.variants[Len(collected) + 1])
       IN  IF r.tag = "Ok"
           THEN collected' = Append(collected, r.val) /\ xpc' = xpc /\ result' = result
           ELSE collected' = collected /\ xpc' = "panicked" /\ result' = r
    /\ UNCHANGED props
    /\ ExpandFrame

\* Variation: the items are generated from the variants converted so far.
Generate_early ==
    /\ xpc = "variants"
    /\ result' = Ok(quote_items(props.val, generics(ast), collected))
    /\ xpc' = "done"
    /\ UNCHANGED <<props, collected>>
    /\ ExpandFrame

\* lib.rs 653-894: every variant is converted; the items are generated.
Generate ==
    /\ xpc = "variants"
    /\ Len(collected) = Len(ast.variants)
    /\ result' = Ok(quote_items(props.val, generics(ast), collected))
    /\ xpc' = "done"
    /\ UNCHANGED <<props, collected>>
    /\ ExpandFrame

ExpandNext ==
    \/ ReadTopLevel
    \/ MatchData
    \/ ConvertVariant
    \/ Generate

ExpandSpec == ExpandInit /\ [][ExpandNext]_vars

(***************************************************************************)
(* Properties of the expansion (ExpandSpec).                               *)
(***************************************************************************)
Expanded == xpc = "done" /\ result.tag = "Ok"
Aborted == xpc = "panicked" /\ result.tag = "Panic"
ItemsOf(r) == {r.val[i] : i \in 1..Len(r.val)}
\* The type parameters the enum declares.
DeclaredTypeParams == {p \in {ast.generics[i] : i \in 1..Len(ast.generics)} : p.kind = "Type"}
\* ty is a bare, one-segment, non-global path naming a declared type parameter.
IsOwnTypeParam(ty) ==
    /\ ty.kind = "Path"
    /\ ~ty.global
    /\ ~ty.args
    /\ \E p \in DeclaredTypeParams : ty.segs = <<p.ident>>
FromImplEmitted(link) ==
    \E it \in ItemsOf(result) :
        /\ it.item = "impl From"
        /\ it.name = props.val.error_name
        /\ it.ty = link.link_type.ty
        /\ it.variant = link.variant_ident

\* C11: for a foreign-link variant wrapping the type W, `impl From<W> for Error`
\* is left out exactly when W is one of the enum's own type parameters (a bare,
\* one-segment, non-global path), and is generated for every other W, Box<T>
\* included; the generated conversion is from_kind(Kind::V(w)), whose state
\* has no immediate cause.
C11_ForeignFromImplEmission ==
    Expanded =>
        \A i \in 1..Len(collected) :
            collected[i].link_type.tag = "Foreign" =>
                /\ FromImplEmitted(collected[i]) <=> ~IsOwnTypeParam(collected[i].link_type.ty)
                /\ \A w \in ForeignErrors, env \in EnvSettings :
                      LET e == Error_from_foreign(collected[i], w, env, 0)
                      IN  /\ e.kind = ErrorKind(collected[i].variant_ident, <<w>>)
                          /\ e = from_kind(e.kind, env, 0)
                          /\ e.state.next_error = NoneV

\* C11 witness: an enum generic over T with the foreign variants' type T itself
\* was expanded, and no From impl was generated for that variant.
C11_Witness ==
    /\ Expanded
    /\ ast.generics = <<TypeParam("T")>>
    /\ Len(collected) = 2
    /\ collected[2].link_type = Foreign(TParam)
    /\ ~FromImplEmitted(collected[2])
    /\ \E it \in ItemsOf(result) : it.item = "impl From<String>" /\ it.name = "Error"

(***************************************************************************)
(* One variant with a const("...") override, expanded and displayed.       *)
(* The templates hold the positions, or the names, of a set of fields, in  *)
(* increasing order; `{}`; a keyword as a name; both styles at once.       *)
(***************************************************************************)
RECURSIVE SortedSeq(_)
SortedSeq(S) ==
    IF S = {}
    THEN <<>>
    ELSE LET m == CHOOSE x \in S : \A y \in S : x <= y
         IN  <<m>> \o SortedSeq(S \ {m})
TplPositions(S) == <<PString("text: ")>> \o [i \in 1..Cardinality(S) |-> PIs(SortedSeq(S)[i])]
TplNames(S) ==
    <<PString("text: ")>>
    \o [i \in 1..Cardinality(S) |-> PNamed(FieldNames[SortedSeq(S)[i] + 1])]
TplKeyword == <<PString("text: "), PNamed("type")>>
TplMixed == <<PString("text: "), PIs(0), PNamed("a")>>
\* The first field, twice.
TplPosTwice == <<PString("text: "), PIs(0), PString(" and "), PIs(0)>>
TplNameTwice == <<PString("text: "), PNamed("a"), PString(" and "), PNamed("a")>>
FieldIndexSets == (SUBSET (0..(MaxFields - 1))) \ {{}}
FmtTemplates ==
    {TplPlain, TplNext, TplKeyword, TplMixed, TplPosTwice, TplNameTwice}
    \cup {TplPositions(S) : S \in FieldIndexSets}
    \cup {TplNames(S) : S \in FieldIndexSets}
FmtShapes ==
    {Unit}
    \cup {Unnamed(Pad(TU32, n)) : n \in 0..MaxFields}
    \cup {Named(SubSeq(FieldNames, 1, n), Pad(TU32, n)) : n \in 0..MaxFields}
FmtDecl(fields, key, tpl) ==
    Variant("HttpStatus", fields, <<CustomAttr, TokensAttr(Assign(key, TxtConst(tpl)))>>)
FmtDecls ==
    {FmtDecl(fields, key, tpl) :
        fields \in FmtShapes, key \in {"description", "display"}, tpl \in FmtTemplates}

FmtInit ==
    /\ LinkIdle
    /\ links = <<>>
    /\ err = NoneV
    /\ op = NoOp
    /\ ExpIdle
    /\ decl \in FmtDecls
    /\ fret = NoneV
    /\ written = NoneV

FmtFrame == UNCHANGED <<linkVars, runVars, expVars, decl>>

\* The variant is converted: Link::from, and in it CustomFormatter::parse
\* (lib.rs 1132-1134, 1448-1558).
FmtExpand ==
    /\ fret = NoneV
    /\ fret' = Link_from(decl)
    /\ UNCHANGED written
    /\ FmtFrame

\* A value of the variant is displayed by the generated arm (lib.rs 726-733,
\* 1232-1312).
FmtDisplay ==
    /\ fret # NoneV
    /\ fret.tag = "Ok"
    /\ written = NoneV
    /\ written' = Some(ErrorKind_fmt(<<fret.val>>,
                          ErrorKind(decl.ident, FieldValues(NumFields(decl.fields)))))
    /\ UNCHANGED fret
    /\ FmtFrame

FmtNext ==
    \/ FmtExpand
    \/ FmtDisplay

FmtSpec == FmtInit /\ [][FmtNext]_vars

(***************************************************************************)
(* Properties of the format-string overrides (FmtSpec).                    *)
(***************************************************************************)
DeclKey == decl.attrs[2].tts.ident
DeclTemplate == decl.attrs[2].tts.value.template
DeclStyle == decl.fields.style
Placeholders == {DeclTemplate[i].position : i \in {j \in 1..Len(DeclTemplate) :
                                                     DeclTemplate[j].tag = "NextArgument"}}
HasImplicit == \E q \in Placeholders : q.tag = "ArgumentNext"
HasIndexed == \E q \in Placeholders : q.tag = "ArgumentIs"
HasNamed == \E q \in Placeholders : q.tag = "ArgumentNamed"
\* The template's placeholders do not fit the variant's field shape.
StyleMismatch ==
    \/ DeclStyle = "Named" /\ (HasImplicit \/ HasIndexed)
    \/ DeclStyle = "Unnamed" /\ (HasNamed \/ HasImplicit)
    \/ DeclStyle = "Unit" /\ Placeholders # {}
\* A named placeholder whose name is a keyword, so no identifier.
HasKeywordName == \E q \in Placeholders : q.tag = "ArgumentNamed" /\ q.name \in Keywords
FormatRejected == fret.tag = "Panic" /\ fret.msg = "FormatParameter" /\ fret.got = DeclKey

\* C12 (as stated): a const("...") override fails expansion exactly when its
\* template has a placeholder that does not fit the field shape (positional
\* or `{}` on named fields, named or `{}` on positional fields, any on a unit
\* variant); every template with fitting placeholders, or none, is accepted.
C12_RejectedIffStyleMismatch ==
    fret # NoneV => (fret.tag = "Panic" <=> StyleMismatch)

\* C12 (amended): a template with a placeholder that does not fit the field
\* shape fails expansion, naming the attribute; so does, on a named-field
\* variant, a named placeholder whose name is not an identifier; every other
\* template is accepted and kept as written.
C12_FormatStringValidation ==
    fret # NoneV =>
        /\ FormatRejected <=> (StyleMismatch \/ (DeclStyle = "Named" /\ HasKeywordName))
        /\ ~FormatRejected =>
              /\ fret.tag = "Ok"
              /\ LET f == IF DeclKey = "display" THEN fret.val.custom_display
                          ELSE fret.val.custom_description
                 IN  f # NoneV /\ f.val.tag = "FormatString"
                     /\ f.val.format_string = DeclTemplate

\* C12 witness: `{a}` on a positional-field variant was rejected.
C12_Witness ==
    /\ decl = FmtDecl(Unnamed(<<TU32>>), "display", TplNames({0}))
    /\ FormatRejected

\* C13 (as stated): with a const display override whose positional
\* placeholders name any non-empty set of the variant's fields, the generated
\* arm writes for each `{i}` the Display of the i-th field; on named fields
\* `{name}` is written as the field called name.
C13_PlaceholdersNameFields ==
    (written # NoneV /\ DeclKey = "display" /\ ~HasImplicit
                     /\ \A q \in Placeholders :
                           \/ q.tag = "ArgumentIs" /\ q.index < NumFields(decl.fields)
                           \/ q.tag = "ArgumentNamed"
                              /\ \E k \in 1..NumFields(decl.fields) :
                                     decl.fields.names[k] = q.name)
        => \A i \in 1..Len(DeclTemplate) :
              LET piece == DeclTemplate[i]
              IN  /\ (piece.tag = "NextArgument" /\ piece.position.tag = "ArgumentIs")
                         => written.val[i] = MkStr(FieldTexts[piece.position.index + 1])
                  /\ (piece.tag = "NextArgument" /\ piece.position.tag = "ArgumentNamed")
                         => \E k \in 1..NumFields(decl.fields) :
                               /\ decl.fields.names[k] = piece.position.name
                               /\ written.val[i] = MkStr(FieldTexts[k])

(***************************************************************************)
(* The enum's own configuration, as the input states it (ExpandSpec).      *)
(***************************************************************************)
\* What the enum's error_chain attributes hold, in reading order: the nested
\* items of the lists, and a mark for an error_chain attribute that is no list.
NotAList == TopItem("NotAList", "", "none", "")
RECURSIVE ReservedItems(_, _)
ReservedItems(attrs, i) ==
    IF i > Len(attrs)
    THEN <<>>
    ELSE (IF attrs[i].path # PathErrorChain
          THEN <<>>
          ELSE IF attrs[i].meta # NoneV /\ attrs[i].meta.val.kind = "List"
          THEN attrs[i].meta.val.nested
          ELSE <<NotAList>>) \o ReservedItems(attrs, i + 1)

IsKey(it, key, lit) == it.kind = "NameValue" /\ it.ident = key /\ it.lit = lit
\* The value the input gives to a key, the last one if it is given twice.
Given(key, lits) ==
    LET its == ReservedItems(ast.attrs, 1)
        at == {i \in 1..Len(its) : \E lit \in lits : IsKey(its[i], key, lit)}
    IN  IF at = {} THEN NoneV ELSE Some(its[CHOOSE i \in at : \A j \in at : j <= i].value)

IsIdentifier(value) == value # "" /\ value \notin Keywords
\* A name key whose value is no identifier.
BadIdentValue(it) ==
    \/ \E key \in {"error", "result_ext"} : IsKey(it, key, "Str") /\ ~IsIdentifier(it.value)
    \/ IsKey(it, "result", "Str") /\ it.value # "" /\ ~IsIdentifier(it.value)
\* A backtrace string that is no boolean.
BadBacktraceValue(it) == IsKey(it, "backtrace", "Str") /\ it.value \notin {"true", "false"}
TopLevelKeys == {"error", "result_ext", "result", "backtrace"}
\* An item the top level has no meaning for.
NotUnderstood(it) ==
    ~ \/ \E key \in TopLevelKeys : IsKey(it, key, "Str")
      \/ IsKey(it, "backtrace", "Bool")
TopDefect(it) == BadIdentValue(it) \/ BadBacktraceValue(it) \/ NotUnderstood(it)
\* The first item, in reading order, that cannot be accepted.
FirstTopDefect ==
    LET its == ReservedItems(ast.attrs, 1)
        at == {i \in 1..Len(its) : TopDefect(its[i])}
    IN  IF at = {} THEN NoneV ELSE Some(its[CHOOSE i \in at : \A j \in at : i <= j])
HasTopItem(P(_)) ==
    \E i \in 1..Len(ReservedItems(ast.attrs, 1)) : P(ReservedItems(ast.attrs, 1)[i])

\* The input without the nested items of its attributes that satisfy Omit.
WithoutTopItems(input, Omit(_)) ==
    [input EXCEPT !.attrs =
        [i \in 1..Len(input.attrs) |->
            IF /\ input.attrs[i].path = PathErrorChain
               /\ input.attrs[i].meta # NoneV
               /\ input.attrs[i].meta.val.kind = "List"
            THEN ListAttr(SelectSeq(input.attrs[i].meta.val.nested, LAMBDA it : ~Omit(it)))
            ELSE input.attrs[i]]]

TopRead == xpc # "top"
Aliases(items) == SelectSeq(items, LAMBDA it : it.item = "type alias")
NotAliases(items) == SelectSeq(items, LAMBDA it : it.item # "type alias")

\* C15: the result alias is generated exactly when the resolved result name is
\* present: named Result when no `result` key is given, named by the `result`
\* value when that is a non-empty identifier, not generated for `result = ""`;
\* every other generated item is what it is without any `result` key.
C15_ResultAlias ==
    Expanded =>
        LET given == Given("result", {"Str"})
            aliases == Aliases(result.val)
            plain == derive_error_chain(
                         WithoutTopItems(ast, LAMBDA it : IsKey(it, "result", "Str")))
        IN  /\ (aliases # <<>>) <=> (props.val.result_name # NoneV)
            /\ given = NoneV => aliases = <<Item("type alias", "Result", NoType, "")>>
            /\ (given # NoneV /\ given.val # "") =>
                   aliases = <<Item("type alias", given.val, NoType, "")>>
            /\ given = Some("") => aliases = <<>>
            /\ plain.tag = "Ok"
            /\ NotAliases(result.val) = NotAliases(plain.val)
            /\ Len(Aliases(plain.val)) = 1

\* C15 witness: an enum of two variants with `result = ""` was expanded and
\* no alias is among its items.
C15_Witness ==
    /\ Expanded
    /\ Given("result", {"Str"}) = Some("")
    /\ Len(collected) = 2
    /\ Aliases(result.val) = <<>>
    /\ Len(result.val) > 10

\* C16: error_name is the `error` value, or Error without one; result_ext_name
\* is the `result_ext` value, or ResultExt without one; the crate alias is
\* error_name followed by _error_chain; an `error`, `result_ext` or non-empty
\* `result` value that is no identifier aborts the expansion, with a message
\* that names the key.
C16_TopLevelResolution ==
    /\ props # NoneV =>
          /\ props.val.error_name =
                 (IF Given("error", {"Str"}) = NoneV THEN "Error"
                  ELSE Given("error", {"Str"}).val)
          /\ props.val.result_ext_name =
                 (IF Given("result_ext", {"Str"}) = NoneV THEN "ResultExt"
                  ELSE Given("result_ext", {"Str"}).val)
          /\ props.val.error_chain_name.prefix = props.val.error_name
          /\ props.val.error_chain_name.suffix = "_error_chain"
          /\ props.val.error_kind_name = ast.ident
          /\ ~HasTopItem(BadIdentValue)
    /\ (TopRead /\ HasTopItem(BadIdentValue)) => Aborted /\ props = NoneV
    /\ (TopRead /\ FirstTopDefect # NoneV /\ BadIdentValue(FirstTopDefect.val)) =>
          result = Panic("ValueNotAnIdentifier", "", FirstTopDefect.val.ident)

\* C16 witness: `error`, `result_ext` and `result` were all given and the
\* enum was expanded under these names.
C16_Witness ==
    /\ Expanded
    /\ props.val.error_name = "MyError"
    /\ props.val.result_ext_name = "MyResultExt"
    /\ props.val.result_name = Some("MyResult")
    /\ props.val.error_chain_name = [prefix |-> "MyError", suffix |-> "_error_chain"]
    /\ \E i \in 1..Len(result.val) :
           result.val[i] = Item("extern crate error_chain as", "MyError", NoType, "_error_chain")

\* The input with every boolean literal of `backtrace` written as a string.
BacktraceAsString(input) ==
    [input EXCEPT !.attrs =
        [i \in 1..Len(input.attrs) |->
            IF /\ input.attrs[i].path = PathErrorChain
               /\ input.attrs[i].meta # NoneV
               /\ input.attrs[i].meta.val.kind = "List"
            THEN ListAttr([j \in 1..Len(input.attrs[i].meta.val.nested) |->
                     LET it == input.attrs[i].meta.val.nested[j]
                     IN  IF IsKey(it, "backtrace", "Bool")
                         THEN TopNameValue("backtrace", "Str", it.value)
                         ELSE it])
            ELSE input.attrs[i]]]

\* C17: `backtrace = "false"` and `backtrace = false` both resolve
\* support_backtrace to false, `backtrace = "true"` and `backtrace = true` both
\* to true, and so does the absence of the key; a string that is neither
\* "true" nor "false" aborts the expansion.  The two forms expand alike.
C17_BacktraceForms ==
    /\ props # NoneV =>
          /\ props.val.support_backtrace =
                 (IF Given("backtrace", {"Str", "Bool"}) = NoneV THEN TRUE
                  ELSE Given("backtrace", {"Str", "Bool"}).val = "true")
          /\ ~HasTopItem(BadBacktraceValue)
    /\ (TopRead /\ HasTopItem(BadBacktraceValue)) => Aborted /\ props = NoneV
    /\ (TopRead /\ FirstTopDefect # NoneV /\ BadBacktraceValue(FirstTopDefect.val)) =>
          result = Panic("BacktraceValue", "", "backtrace")
    /\ xpc \in {"done", "panicked"} => result = derive_error_chain(BacktraceAsString(ast))
    /\ Expanded =>
          (props.val.support_backtrace <=>
               \E i \in 1..Len(result.val) : result.val[i].item = "fn extract_backtrace")

\* C17 witness: an enum of two variants with the literal `backtrace = false`
\* was expanded without backtrace support.
C17_Witness ==
    /\ Expanded
    /\ HasTopItem(LAMBDA it : IsKey(it, "backtrace", "Bool") /\ it.value = "false")
    /\ Len(collected) = 2
    /\ ~props.val.support_backtrace
    /\ \A i \in 1..Len(result.val) : result.val[i].item # "fn extract_backtrace"

(***************************************************************************)
(* Words and keys that are not recognized, on the enum and on a variant.   *)
(***************************************************************************)
VariantWords == {"foreign", "custom"}
VariantKeys == {"link", "description", "display", "cause"}
\* A word or a key of the enum's attributes that is no top-level key.
TopUnknown(it) == it.kind \in {"Word", "NameValue"} /\ it.ident \notin TopLevelKeys

\* The words and keys of one variant attribute that are not recognized.
UnknownOfAttr(attr) ==
    IF attr.path # PathErrorChain
    THEN <<>>
    ELSE IF attr.meta # NoneV /\ attr.meta.val.kind = "List"
    THEN SelectSeq(attr.meta.val.nested,
                   LAMBDA nm : \/ nm.kind = "Word" /\ nm.ident \notin VariantWords
                               \/ nm.kind = "NameValue" /\ nm.ident \notin VariantKeys)
    ELSE IF /\ attr.tts.outer = "group"
            /\ attr.tts.first = "term"
            /\ attr.tts.ident \notin VariantKeys
    THEN <<[kind |-> "Tokens", ident |-> attr.tts.ident, lit |-> "none",
            value |-> attr.tts.value]>>
    ELSE <<>>
RECURSIVE UnknownOf(_, _)
UnknownOf(attrs, i) ==
    IF i > Len(attrs) THEN <<>> ELSE UnknownOfAttr(attrs[i]) \o UnknownOf(attrs, i + 1)

\* The variant without its unrecognized words and keys.
WithoutUnknown(v) ==
    LET kept == SelectSeq(v.attrs, LAMBDA attr :
                    attr.meta # NoneV \/ UnknownOfAttr(attr) = <<>>)
    IN  [v EXCEPT !.attrs =
            [i \in 1..Len(kept) |->
                IF /\ kept[i].path = PathErrorChain
                   /\ kept[i].meta # NoneV
                   /\ kept[i].meta.val.kind = "List"
                THEN ListAttr(SelectSeq(kept[i].meta.val.nested,
                         LAMBDA nm : ~ \/ nm.kind = "Word" /\ nm.ident \notin VariantWords
                                       \/ nm.kind = "NameValue" /\ nm.ident \notin VariantKeys))
                ELSE kept[i]]]
\* One unrecognized word or key is all that is wrong with the variant.
SoleUnknown(v) ==
    /\ Len(UnknownOf(v.attrs, 1)) = 1
    /\ Link_from(WithoutUnknown(v)).tag = "Ok"

\* The expansion was aborted by the conversion of a variant: the next one.
VariantAborted == Aborted /\ props # NoneV /\ ast.data = "Enum"
FailedVariant == ast.variants[Len(collected) + 1]

\* The Msg variant: its attributes are not read (lib.rs 1014-1023).
IsMsgVariant(v) == v.ident = "Msg" /\ MsgShape(v.fields)

\* Every unrecognized word or key is fatal, on the enum and on any variant.
UnknownIsFatalEverywhere ==
    /\ (TopRead /\ HasTopItem(TopUnknown)) => Aborted
    /\ \A i \in 1..Len(ast.variants) :
           UnknownOf(ast.variants[i].attrs, 1) # <<>> => (Len(collected) < i /\ xpc # "done")
\* The same, on the enum and on any variant but the Msg variant.
UnknownIsFatal ==
    /\ (TopRead /\ HasTopItem(TopUnknown)) => Aborted
    /\ \A i \in 1..Len(ast.variants) :
           (UnknownOf(ast.variants[i].attrs, 1) # <<>> /\ ~IsMsgVariant(ast.variants[i]))
               => (Len(collected) < i /\ xpc # "done")

\* C18 (as stated): every key or bare word of an error_chain attribute that is
\* not recognized in its scope aborts the expansion with a message that names
\* the offending key and the valid set, on the enum and on every variant.
C18_UnknownNamesKeyAndSet ==
    /\ UnknownIsFatalEverywhere
    /\ (TopRead /\ FirstTopDefect # NoneV /\ TopUnknown(FirstTopDefect.val)) =>
           /\ result.msg = "ExpectedTopLevelKeyButGot"
           /\ result.got = FirstTopDefect.val.ident
    /\ (VariantAborted /\ SoleUnknown(FailedVariant)) =>
           /\ result.msg \in {"ExpectedForeignOrCustom", "ExpectedLinkDescriptionDisplayCause"}
           /\ result.member = FailedVariant.ident
           /\ result.got = UnknownOf(FailedVariant.attrs, 1)[1].ident

\* C18 (amended): every unrecognized key or bare word aborts the expansion, on
\* the enum and on every variant but the Msg variant, whose attributes are
\* not read.  The message names the key and the valid set
\* for a key with a string value on the enum, and for a bare word and a key
\* with a string or token value on a variant.  For a bare word or a key with
\* another literal on the enum it names the valid set only; for a key with
\* another literal on a variant it names the variant only.
C18_UnknownIsFatal ==
    /\ UnknownIsFatal
    /\ (TopRead /\ FirstTopDefect # NoneV /\ TopUnknown(FirstTopDefect.val)) =>
           LET u == FirstTopDefect.val
           IN  result = IF IsKey(u, u.ident, "Str")
                        THEN Panic("ExpectedTopLevelKeyButGot", "", u.ident)
                        ELSE Panic("ExpectedTopLevelKey", "", "")
    /\ (VariantAborted /\ SoleUnknown(FailedVariant)) =>
           LET u == UnknownOf(FailedVariant.attrs, 1)[1]
           IN  result = IF u.kind = "Word"
                        THEN Panic("ExpectedForeignOrCustom", FailedVariant.ident, u.ident)
                        ELSE IF u.kind = "Tokens" \/ u.lit = "Str"
                        THEN Panic("ExpectedLinkDescriptionDisplayCause",
                                   FailedVariant.ident, u.ident)
                        ELSE Panic("ExpectedTermOrNameValue", FailedVariant.ident, "")

\* C18 witness: the second variant holds an unknown key with a number, and
\* the expansion was aborted with a message that names the variant only.
C18_Witness ==
    /\ VariantAborted
    /\ Len(collected) = 1
    /\ SoleUnknown(FailedVariant)
    /\ UnknownOf(FailedVariant.attrs, 1)[1] = NameValue("bogus", "Int", TxtEmpty)
    /\ result = Panic("ExpectedTermOrNameValue", "BadLitKey", "")

(***************************************************************************)
(* The expansion as a whole (ExpandSpec).                                  *)
(***************************************************************************)
\* A validation of the input fails: the enum's configuration, the input's
\* data, or the classification or the format strings of a variant.
SomeValidationFails ==
    \/ TopLevelProperties_from(ast).tag = "Panic"
    \/ ast.data # "Enum"
    \/ \E i \in 1..Len(ast.variants) : Link_from(ast.variants[i]).tag = "Panic"

\* C19: if a validation of the enum's configuration, of a variant's
\* classification or of a format string fails, for a variant at any position,
\* the expansion returns no generated item at all; items are returned only
\* after every variant was classified.
C19_NoPartialExpansion ==
    /\ SomeValidationFails => (result = NoneV \/ result.tag = "Panic")
    /\ xpc \in {"top", "data", "variants"} => result = NoneV
    /\ xpc = "panicked" => result.tag = "Panic"
    /\ xpc = "done" =>
           /\ result.tag = "Ok"
           /\ props # NoneV
           /\ Len(collected) = Len(ast.variants)
           /\ \A i \in 1..Len(ast.variants) : Link_from(ast.variants[i]) = Ok(collected[i])

\* C19 witness: the first variant was classified, the format string of the
\* second was rejected, and the expansion was aborted without any item.
C19_Witness ==
    /\ VariantAborted
    /\ Len(collected) = 1
    /\ FailedVariant.ident = "BadTemplate"
    /\ result.tag = "Panic"
    /\ result.member = "BadTemplate"

\* The attributes whose path is the single non-global segment error_chain.
ReservedOnly(attrs) == SelectSeq(attrs, LAMBDA attr : attr.path = PathErrorChain)
\* The input without the other attributes, on the enum and on every variant.
WithoutOtherAttrs(input) ==
    [input EXCEPT !.attrs = ReservedOnly(input.attrs),
                  !.variants = [i \in 1..Len(input.variants) |->
                                   [input.variants[i] EXCEPT
                                       !.attrs = ReservedOnly(input.variants[i].attrs)]]]
HasOtherAttrs(input) ==
    \/ ReservedOnly(input.attrs) # input.attrs
    \/ \E i \in 1..Len(input.variants) :
           ReservedOnly(input.variants[i].attrs) # input.variants[i].attrs

\* C20: an attribute whose path is not the single non-global segment
\* error_chain, on the enum or on a variant, is never interpreted: it causes
\* no failure and changes neither the resolved configuration nor a variant's
\* link kind and overrides, so the expansion is that of the input without it.
C20_OtherAttributesIgnored ==
    /\ props # NoneV => Ok(props.val) = TopLevelProperties_from(WithoutOtherAttrs(ast))
    /\ (TopRead /\ props = NoneV) => result = TopLevelProperties_from(WithoutOtherAttrs(ast))
    /\ \A i \in 1..Len(collected) :
           Ok(collected[i]) = Link_from(WithoutOtherAttrs(ast).variants[i])
    /\ VariantAborted => result = Link_from(WithoutOtherAttrs(ast).variants[Len(collected) + 1])
    /\ xpc \in {"done", "panicked"} => result = derive_error_chain(WithoutOtherAttrs(ast))

\* C20 witness: an enum with a doc attribute, whose second variant carries
\* `::error_chain` and `other::error_chain` attributes around its marker, was
\* expanded, the variant as a custom link without overrides.
C20_Witness ==
    /\ Expanded
    /\ ast.attrs = <<DocAttr>>
    /\ Len(collected) = 2
    /\ ast.variants[2].ident = "Tagged"
    /\ Len(ast.variants[2].attrs) = 3
    /\ collected[2] = Link("Tagged", Unit, Custom, NoneV, NoneV, NoneV)
    /\ props.val.error_name = "Error"

\* The enum declares a Msg variant.
DeclaresMsg == \E i \in 1..Len(ast.variants) : ast.variants[i].ident = "Msg"
\* How many of the generated items are `item` for the type `name`.
CountItems(item, name) ==
    Cardinality({i \in 1..Len(result.val) :
                    result.val[i].item = item /\ result.val[i].name = name})

\* C21: From<String> and From<&str> are generated for the kind type and for
\* the wrapper type exactly when the enum declares a Msg variant, once each;
\* an enum without Msg gets none of the four.
C21_StringConversionsIffMsg ==
    Expanded =>
        \A item \in {"impl From<&str>", "impl From<String>"},
           name \in {props.val.error_kind_name, props.val.error_name} :
            /\ CountItems(item, name) = (IF DeclaresMsg THEN 1 ELSE 0)
            /\ \A i \in 1..Len(result.val) :
                   result.val[i].item = item => result.val[i].variant = "Msg"

\* C21 witness: an enum of a chainable and a custom variant, without Msg, was
\* expanded and no conversion from a string is among its items.
C21_Witness ==
    /\ Expanded
    /\ ~DeclaresMsg
    /\ Len(collected) = 2
    /\ {collected[1].link_type.tag, collected[2].link_type.tag} = {"Chainable", "Custom"}
    /\ \A i \in 1..Len(result.val) :
           result.val[i].item \notin {"impl From<&str>", "impl From<String>"}

(***************************************************************************)
(* The chaining trait on Result and Option (Spec).                         *)
(***************************************************************************)
\* The last operation was chain_err on a Result, on an Option.
OnResult == op.name = "Result::chain_err"
OnOption == op.name = "Option::chain_err"

\* C22: chain_err on a Result returns Ok(v) as Ok(v) without calling the
\* callback, and turns Err(e) into Err(wrapper) whose kind is the callback's
\* result and whose immediate cause is e: the wrapper with_chain(e, kind)
\* builds, with the same kind, cause and Display.  On an Option, Some(v)
\* becomes Ok(v) without calling the callback and None becomes Err(wrapper)
\* built from the kind alone, without an immediate cause.
C22_ChainErrOnResultAndOption ==
    /\ (OnResult /\ op.arg.tag = "Ok") =>
           op.ret = Ok(op.arg.val) /\ ~op.called /\ err = NoneV
    /\ (OnResult /\ op.arg.tag = "Err") =>
           LET w == with_chain(links, op.arg.val, op.kind, op.env,
                               FreshId(BacktraceIds(op.arg.val)))
           IN  /\ op.ret = Err(err)
               /\ op.called
               /\ err.kind = op.kind
               /\ err.state.next_error = Some(op.arg.val)
               /\ Error_cause(links, err) = Some(op.arg.val)
               /\ err.kind = w.kind
               /\ Error_cause(links, err) = Error_cause(links, w)
               /\ Error_fmt(links, err) = Error_fmt(links, w)
               /\ err = w
    /\ (OnOption /\ op.arg.tag = "Some") =>
           op.ret = Ok(op.arg.val) /\ ~op.called /\ err = NoneV
    /\ (OnOption /\ op.arg = NoneV) =>
           /\ op.ret = Err(err)
           /\ op.called
           /\ err.kind = op.kind
           /\ err.state.next_error = NoneV
           /\ err = from_kind(op.kind, op.env, 0)

\* C22 witness: chain_err was called on an Err holding a foreign error, and
\* the wrapper it returned has that error as its cause.
C22_Witness ==
    /\ OnResult
    /\ op.arg.tag = "Err"
    /\ op.arg.val \in ForeignErrors
    /\ op.called
    /\ err # NoneV
    /\ err.state.next_error = Some(op.arg.val)

(***************************************************************************)
(* Backtraces of new wrappers (Spec).                                      *)
(***************************************************************************)
\* The operations that build a wrapper from a kind, a string or a foreign
\* error: nothing they are given holds a state of its own.
FreshlyConstructed ==
    \/ op.name \in {"from_kind", "From<ErrorKind>", "From<String>",
                    "From<String> for ErrorKind", "From<foreign error>"}
    \/ op.name = "with_chain" /\ op.arg.sort = "ForeignError"
    \/ OnResult /\ op.arg.tag = "Err" /\ op.arg.val.sort = "ForeignError"
    \/ OnOption /\ op.arg = NoneV
\* lib.rs 782-784: Error::backtrace()
Error_backtrace(e) == e.state.backtrace

IsOverrideVariant(i) == ast.variants[i].ident = "Override"
OverrideItem(i) ==
    LET attr == ast.variants[i].attrs[2]
    IN  IF attr.meta # NoneV
        THEN [key |-> attr.meta.val.nested[1].ident, how |-> "Str",
              text |-> attr.meta.val.nested[1].value]
        ELSE [key |-> attr.tts.ident, how |-> "Tokens", text |-> attr.tts.value]
OverrideIn(link, key) ==
    IF key = "description" THEN link.custom_description ELSE link.custom_display
IsExpression(text) == text.form \in {"closure", "path"}
IsShorthand(text) == text.form = "const" /\ text.group = "paren" /\ text.lit = "str"
\* The variant at position i was converted, or its conversion was aborted.
Converted(i) == i <= Len(collected)
AbortedAt(i) == VariantAborted /\ i = Len(collected) + 1

\* An expression yields an expression override, however the value is written.
ExpressionAccepted ==
    \A i \in 1..Len(ast.variants) :
        (IsOverrideVariant(i) /\ IsExpression(OverrideItem(i).text)) =>
            /\ ~AbortedAt(i)
            /\ Converted(i) =>
                   LET o == OverrideIn(collected[i], OverrideItem(i).key)
                   IN  /\ o # NoneV
                       /\ o.val.tag = "Expr"
                       /\ o.val.expr.id = OverrideItem(i).text.id
                       /\ o.val.expr.closure = (OverrideItem(i).text.form = "closure")
\* The shorthand, written as `how`, yields an analysed format string.
ShorthandAccepted(how) ==
    \A i \in 1..Len(ast.variants) :
        (/\ IsOverrideVariant(i)
         /\ IsShorthand(OverrideItem(i).text)
         /\ OverrideItem(i).how = how) =>
            /\ ~AbortedAt(i)
            /\ Converted(i) =>
                   LET o == OverrideIn(collected[i], OverrideItem(i).key)
                   IN  /\ o # NoneV
                       /\ o.val.tag = "FormatString"
                       /\ o.val.format_string = OverrideItem(i).text.template

\* C24 (as stated): a description or display value is accepted as an
\* expression or as the shorthand const("literal"), written as a string
\* literal or as tokens alike: an expression yields an expression override,
\* the shorthand an analysed format string.
C24_BothShapesBothForms ==
    /\ ExpressionAccepted
    /\ ShorthandAccepted("Tokens")
    /\ ShorthandAccepted("Str")

\* C24 (amended): an expression yields an expression override, written as a
\* string literal or as tokens; the shorthand yields an analysed format string
\* only when written as tokens.  Inside a string literal the value is parsed
\* as an expression only, so the shorthand aborts the expansion there.
C24_ShorthandInTokensOnly ==
    /\ ExpressionAccepted
    /\ ShorthandAccepted("Tokens")
    /\ \A i \in 1..Len(ast.variants) :
           (/\ IsOverrideVariant(i)
            /\ IsShorthand(OverrideItem(i).text)
            /\ OverrideItem(i).how = "Str") =>
               /\ ~Converted(i)
               /\ xpc # "done"
               /\ AbortedAt(i) =>
                      result = Panic("NotAnExpression", "Override", OverrideItem(i).key)

\* C24 witness: the expansion was aborted at a variant whose display is the
\* shorthand inside a string literal.
C24_Witness ==
    /\ AbortedAt(2)
    /\ IsOverrideVariant(2)
    /\ OverrideItem(2) = [key |-> "display", how |-> "Str", text |-> TxtConst(TplPos0)]
    /\ result = Panic("NotAnExpression", "Override", "display")

(***************************************************************************)
(* extract_backtrace (ExpandSpec).                                         *)
(***************************************************************************)
\* The positions, among the generated items, of extract_backtrace and of the
\* checks inside it, in order.
RECURSIVE Positions(_, _, _)
Positions(items, Test(_), i) ==
    IF i > Len(items)
    THEN <<>>
    ELSE (IF Test(items[i]) THEN <<i>> ELSE <<>>) \o Positions(items, Test, i + 1)
BacktraceItemPositions ==
    Positions(result.val,
              LAMBDA it : it.item \in {"fn extract_backtrace", "extract_backtrace case"}, 1)
\* The chainable variants of the enum, in declaration order.
ChainablePositions ==
    Positions(collected, LAMBDA link : link.link_type.tag = "Chainable", 1)

\* C25: extract_backtrace is generated exactly when backtrace support is on.
\* It checks first for the own wrapper type, then for the error type of every
\* chainable variant in declaration order, and for nothing else: Msg, foreign
\* and custom variants contribute no check.  The first match's backtrace is
\* returned, and none without a match.
C25_ExtractBacktrace ==
    Expanded =>
        LET at == BacktraceItemPositions
            ch == ChainablePositions
        IN  /\ ~props.val.support_backtrace => at = <<>>
            /\ props.val.support_backtrace =>
                   /\ Len(at) = 1 + Len(ch)
                   /\ result.val[at[1]] =
                          Item("fn extract_backtrace", props.val.error_name, NoType, "")
                   /\ \A k \in 1..Len(ch) :
                          /\ at[k + 1] = at[1] + k
                          /\ result.val[at[k + 1]] =
                                 Item("extract_backtrace case", props.val.error_name,
                                      collected[ch[k]].link_type.error_ty,
                                      collected[ch[k]].variant_ident)
                   /\ \A e \in SiblingErrors \cup ForeignErrors
                               \cup {Error(ErrorKind("Msg", <<MkString("boom")>>), st) :
                                        st \in States} :
                          extract_backtrace(collected, e) =
                              IF e.sort = "Error" \/ (e.sort = "SiblingError" /\ ch # <<>>)
                              THEN e.state.backtrace
                              ELSE NoneV

\* C25 witness: an enum of a foreign and a chainable variant was expanded
\* with backtrace support; extract_backtrace holds one check, the chainable's.
C25_Witness ==
    /\ Expanded
    /\ props.val.support_backtrace
    /\ Len(collected) = 2
    /\ collected[1].link_type.tag = "Foreign"
    /\ collected[2].link_type.tag = "Chainable"
    /\ Len(BacktraceItemPositions) = 2
    /\ result.val[BacktraceItemPositions[2]].variant = collected[2].variant_ident

(***************************************************************************)
(* The pattern and the arguments of a format-string override (FmtSpec).    *)
(***************************************************************************)
\* The declared variant was converted and its override is a format string.
Analysed == fret # NoneV /\ fret.tag = "Ok"
Binding == IF DeclKey = "description" THEN fret.val.custom_description.val
           ELSE fret.val.custom_display.val
\* The template refers to the i-th declared field, by position or by name.
Referenced(i) ==
    \E q \in Placeholders :
        \/ DeclStyle = "Unnamed" /\ q.tag = "ArgumentIs" /\ q.index = i - 1
        \/ DeclStyle = "Named" /\ q.tag = "ArgumentNamed" /\ q.name = decl.fields.names[i]
ReferencedFields == {i \in 1..NumFields(decl.fields) : Referenced(i)}

IsCall(r, key, form, arguments) ==
    r = [sort |-> "Call", expr |-> key, form |-> form, args |-> arguments]
FormOf(expr) == IF expr.closure THEN "closure" ELSE "path"

\* C27: a display override that is a closure is called with the variant's
\* fields, one argument each in declaration order, and without the formatter;
\* any other display expression is called with the formatter and then the
\* fields.  Description and cause overrides are called with the fields alone,
\* closure or not.  For a chainable or foreign variant the one argument is
\* the wrapped value.
C27_OverrideCallingConvention ==
    (err # NoneV /\ ErrTag # "Msg") =>
        LET fields == err.kind.fields
            dd == ErrLink.custom_display
            ds == ErrLink.custom_description
            dc == ErrLink.custom_cause
        IN  /\ ErrTag \in {"Chainable", "Foreign"} => Len(fields) = 1
            /\ (dd # NoneV /\ dd.val.tag = "Expr" /\ dd.val.expr.closure) =>
                   /\ Len(Error_fmt(links, err)) = 1
                   /\ IsCall(Error_fmt(links, err)[1], "display", "closure", fields)
            /\ (dd # NoneV /\ dd.val.tag = "Expr" /\ ~dd.val.expr.closure) =>
                   /\ Len(Error_fmt(links, err)) = 1
                   /\ IsCall(Error_fmt(links, err)[1], "display", "path",
                             <<Formatter>> \o fields)
            /\ (ds # NoneV /\ ds.val.tag = "Expr") =>
                   IsCall(Error_description(links, err), "description",
                          FormOf(ds.val.expr), fields)
            /\ (dc # NoneV /\ err.state.next_error = NoneV) =>
                   /\ Error_cause(links, err).tag = "Some"
                   /\ IsCall(Error_cause(links, err).val, "cause", FormOf(dc.val), fields)

\* C27 witness: a custom variant of two fields whose display override is a
\* function path; it is called with the formatter, then the two fields.
C27_Witness ==
    /\ err # NoneV
    /\ ErrTag = "Custom"
    /\ Len(err.kind.fields) = 2
    /\ err.kind.fields[1] # err.kind.fields[2]
    /\ ErrLink.custom_display # NoneV
    /\ Error_fmt(links, err) =
           <<[sort |-> "Call", expr |-> "display", form |-> "path",
              args |-> <<Formatter, err.kind.fields[1], err.kind.fields[2]>>]>>

(***************************************************************************)
(* The order of what is emitted (ExpandSpec).                              *)
(***************************************************************************)
DeclaredIdents == [i \in 1..Len(ast.variants) |-> ast.variants[i].ident]
VariantIndex(ident) == CHOOSE i \in 1..Len(ast.variants) : ast.variants[i].ident = ident
\* The variants that the emitted items of one sort are about, as emitted.
EmittedFor(IsOfSort(_)) ==
    LET its == SelectSeq(result.val, IsOfSort)
    IN  [i \in 1..Len(its) |-> its[i].variant]
InDeclarationOrder(idents) ==
    \A a, b \in 1..Len(idents) :
        a < b => VariantIndex(idents[a]) <= VariantIndex(idents[b])
IsFromImpl(it, name) ==
    it.item \in {"impl From<&str>", "impl From<String>", "impl From"} /\ it.name = name

CarriesErrorChainAttr(v) ==
    \E i \in 1..Len(v.attrs) : is_error_chain_attribute(v.attrs[i])
\* The variants converted so far, and the arms emitted for the variant `ident`.
Done == 1..Len(collected)
ArmsFor(ident) ==
    {it \in ItemsOf(result) :
        it.variant = ident /\ it.item \in {"description arm", "display arm", "cause arm"}}

\* C29: the error_chain attributes of the Msg variant are never read.  Its
\* Link has the Msg link type and no description, display or cause override
\* whatever the attributes are; its arms are the default ones, with no cause
\* arm; and no attribute of it makes the expansion fail.
C29_MsgAttributesNeverRead ==
    /\ \A i \in Done :
           IsMsgVariant(ast.variants[i]) =>
               /\ collected[i].link_type = LinkMsg
               /\ collected[i].custom_description = NoneV
               /\ collected[i].custom_display = NoneV
               /\ collected[i].custom_cause = NoneV
               /\ collected[i].variant_fields = ast.variants[i].fields
    /\ VariantAborted => ~IsMsgVariant(FailedVariant)
    /\ Expanded =>
           \A i \in Done :
               IsMsgVariant(ast.variants[i]) =>
                   ArmsFor("Msg") =
                       {Item("description arm", props.val.error_kind_name, NoType, "Msg"),
                        Item("display arm", props.val.error_kind_name, NoType, "Msg")}

\* C29 witness: an enum whose Msg variant carries an error_chain attribute
\* with an unrecognized word is expanded, and the variant's link is Msg.
C29_Witness ==
    /\ Expanded
    /\ \E i \in Done :
           /\ IsMsgVariant(ast.variants[i])
           /\ CarriesErrorChainAttr(ast.variants[i])
           /\ ast.variants[i].attrs = <<ListAttr(<<Word("bogus")>>)>>
           /\ collected[i].link_type = LinkMsg

(***************************************************************************)
(* Options that are given more than once (ExpandSpec).                     *)
(***************************************************************************)
\* The last element of a sequence that satisfies P.
LastThat(seq, P(_)) ==
    seq[CHOOSE i \in 1..Len(seq) : P(seq[i]) /\ \A j \in (i + 1)..Len(seq) : ~P(seq[j])]
Occurs(seq, P(_)) == \E i \in 1..Len(seq) : P(seq[i])

\* What the enum's configuration holds for a top-level key.
TopField(p, key) ==
    CASE key = "error" -> p.error_name
      [] key = "result_ext" -> p.result_ext_name
      [] key = "result" -> p.result_name
      [] key = "backtrace" -> p.support_backtrace
\* The occurrences of options on a variant, each as an attribute of its own.
RECURSIVE Occurrences(_, _)
Occurrences(attrs, i) ==
    IF i > Len(attrs)
    THEN <<>>
    ELSE (IF attrs[i].path # PathErrorChain
          THEN <<>>
          ELSE IF attrs[i].meta # NoneV /\ attrs[i].meta.val.kind = "List"
          THEN [j \in 1..Len(attrs[i].meta.val.nested) |->
                   ListAttr(<<attrs[i].meta.val.nested[j]>>)]
          ELSE <<attrs[i]>>) \o Occurrences(attrs, i + 1)
\* The part of the Link an occurrence is about.
Slot(occ) ==
    LET ident == IF occ.meta # NoneV THEN occ.meta.val.nested[1].ident ELSE occ.tts.ident
    IN  IF ident \in {"foreign", "custom", "link"} THEN "link_type" ELSE ident
Slots == {"link_type", "description", "display", "cause"}
LinkField(link, slot) ==
    CASE slot = "link_type" -> link.link_type
      [] slot = "description" -> link.custom_description
      [] slot = "display" -> link.custom_display
      [] slot = "cause" -> link.custom_cause
\* The occurrence read on its own, for the variant v.
ReadAlone(v, occ) == read_attr(LinkLocals(v.ident, v.fields), occ)
GivenTwice(seq, P(_)) == \E i, j \in 1..Len(seq) : i < j /\ P(seq[i]) /\ P(seq[j])

\* C30: an option that is given more than once is not rejected, and the last
\* occurrence in source order decides.  On the enum, each of error, result_ext,
\* result and backtrace has the value of its last occurrence; on a variant the
\* link type is that of the last marker and each override that of the last
\* description, display or cause.  An expansion is aborted only where some
\* occurrence is not valid on its own, or a variant has no marker.
C30_LastOccurrenceWins ==
    /\ props # NoneV =>
           \A key \in TopLevelKeys :
               LET its == ReservedItems(ast.attrs, 1)
                   IsOcc(it) == it.ident = key
               IN  Occurs(its, IsOcc) =>
                       LET alone == top_nested_meta(TopLocals, LastThat(its, IsOcc))
                       IN  /\ alone.tag = "Ok"
                           /\ TopField(props.val, key) = TopField(alone.val, key)
    /\ (Aborted /\ props = NoneV) =>
           \E i \in 1..Len(ReservedItems(ast.attrs, 1)) :
               top_nested_meta(TopLocals, ReservedItems(ast.attrs, 1)[i]).tag = "Panic"
    /\ \A i \in 1..Len(collected) :
           LET v == ast.variants[i]
               occs == Occurrences(v.attrs, 1)
           IN  ~IsMsgVariant(v) =>
                   \A slot \in Slots :
                       LET IsOcc(occ) == Slot(occ) = slot
                       IN  Occurs(occs, IsOcc) =>
                               LET alone == ReadAlone(v, LastThat(occs, IsOcc))
                               IN  /\ alone.tag = "Ok"
                                   /\ LinkField(alone.val, slot) =
                                          IF slot = "link_type"
                                          THEN Some(collected[i].link_type)
                                          ELSE LinkField(collected[i], slot)
    /\ (VariantAborted /\ FailedVariant.ident # "Msg") =>
           LET occs == Occurrences(FailedVariant.attrs, 1)
           IN  \/ \E i \in 1..Len(occs) : ReadAlone(FailedVariant, occs[i]).tag = "Panic"
               \/ ~Occurs(occs, LAMBDA occ : Slot(occ) = "link_type")

\* C30 witness: the enum gives `result` twice and the variant gives
\* `description` twice; the expansion succeeds with the second of each.
C30_Witness ==
    /\ Expanded
    /\ GivenTwice(ReservedItems(ast.attrs, 1), LAMBDA it : it.ident = "result")
    /\ GivenTwice(Occurrences(ast.variants[1].attrs, 1),
                  LAMBDA occ : Slot(occ) = "description")
    /\ props.val.result_name = NoneV
    /\ collected[1].custom_description = Some(ExprFormatter(parse_expr(TxtClosure).val))

====
